---- MODULE Spec2Model ----
(***************************************************************************)
(* Deployment orchestrator of the quest-tracker repository                 *)
(* (activity-12-deployment/scripts/deploy-orchestrator.js): the CLI entry  *)
(* point main(), the construction of a DeploymentOrchestrator, the seven   *)
(* step pipeline of deploy(), rollback and the persisted records.          *)
(*                                                                         *)
(* Everything outside the process (argv, the config file, package.json,    *)
(* shell commands, HTTP answers, the outcome of file writes) is an input   *)
(* chosen from a small set.  Timestamps, durations and version strings are *)
(* left out; a log entry keeps level, message kind and the values          *)
(* interpolated into the message.                                          *)
(***************************************************************************)
EXTENDS Integers, Sequences, FiniteSets, TLC

\* ------------------------------------------------------------------ bounds
\* largest healthCheckRetries a config file carries in the model
MaxRetries == 2

\* ------------------------------------------------------- program constants
\* steps.length in deploy()
TotalSteps == 7
\* handleDeploymentFailure: rollback when failedStep >= 2 (0-based)
RollbackFromStep == 2
\* healthCheckRetries of the default configuration
DefaultRetries == 5

validEnvironments == {"staging", "production"}
problematicPackages == <<"left-pad", "event-stream">>
requiredTools == <<"node", "npm", "git">>
requiredFiles == <<"package.json", "backend/package.json", "frontend/package.json">>

\* ---------------------------------------------------------------- inputs
\* process.argv[2]: absent, the two valid names, an invalid name
ArgValues == {"<absent>", "staging", "production", "dev"}

\* dependency sets of backend/package.json and frontend/package.json
BackendDepSets == {{"express"}, {"express", "left-pad"}}
FrontendDepSets == {{"react"}, {"react", "event-stream"}, {"react", "left-pad"}}

Svc(n, e) == [name |-> n, enabled |-> e]

\* the `services` object of a config file, in declaration order
ServiceLists ==
  { <<>>,
    <<Svc("backend", TRUE), Svc("frontend", TRUE)>>,
    <<Svc("frontend", TRUE), Svc("backend", TRUE)>>,
    <<Svc("backend", TRUE), Svc("frontend", FALSE)>>,
    <<Svc("backend", TRUE), Svc("frontend", TRUE), Svc("worker", TRUE)>> }

\* the `deployment` object: absent, or with/without healthCheckRetries
DeploymentSections ==
  { [present |-> FALSE, strategy |-> "rolling", hasRetries |-> FALSE, healthCheckRetries |-> 0],
    [present |-> TRUE, strategy |-> "rolling", hasRetries |-> FALSE, healthCheckRetries |-> 0],
    [present |-> TRUE, strategy |-> "blue-green", hasRetries |-> TRUE, healthCheckRetries |-> 1] }
  \cup { [present |-> TRUE, strategy |-> "rolling", hasRetries |-> TRUE, healthCheckRetries |-> r] :
           r \in 0..MaxRetries }

\* the `notifications` object of a config file: absent, or with both channels
\* switched on (the default configuration has both switched off)
NotificationSections ==
  { [present |-> FALSE, slack |-> FALSE, webhook |-> FALSE],
    [present |-> TRUE, slack |-> TRUE, webhook |-> TRUE] }

\* what JSON.parse of a config file can return
ParsedConfigs ==
  { [hasServices |-> TRUE, services |-> s, deployment |-> d, notifications |-> n] :
      s \in ServiceLists, d \in DeploymentSections, n \in NotificationSections }
  \cup { [hasServices |-> FALSE, services |-> <<>>, deployment |-> d, notifications |-> n] :
      d \in {x \in DeploymentSections : x.hasRetries /\ x.healthCheckRetries = 1},
      n \in {x \in NotificationSections : x.present} }

\* the object literal returned at the end of loadConfig
DefaultConfig ==
  [hasServices |-> TRUE,
   services |-> <<Svc("backend", TRUE), Svc("frontend", TRUE)>>,
   deployment |-> [present |-> TRUE, strategy |-> "rolling",
                   hasRetries |-> TRUE, healthCheckRetries |-> DefaultRetries],
   notifications |-> [present |-> TRUE, slack |-> FALSE, webhook |-> FALSE]]

\* config/deploy-<environment>.json as found on disk
ConfigFiles ==
  { [state |-> "absent", content |-> DefaultConfig],
    [state |-> "malformed", content |-> DefaultConfig] }
  \cup { [state |-> "valid", content |-> c] : c \in ParsedConfigs }

\* ----------------------------------------------------------------- errors
Err(k, s, n, c) == [kind |-> k, subject |-> s, n |-> n, cause |-> c]
NoError == Err("none", "", 0, "")

\* ------------------------------------------------------------------ state
VARIABLES
  argv0,            \* process.argv[2]
  backendDeps,      \* keys of backend/package.json dependencies
  frontendDeps,     \* keys of frontend/package.json dependencies
  environment,      \* this.environment
  config,           \* this.config
  deploymentState,  \* this.deploymentState (services: entries in insertion order)
  logs,             \* this.logs
  pc,               \* position of the control flow of main()/deploy()
  error,            \* the exception in flight or last caught
  svcIdx,           \* position of the for-of loop of the running phase
  attempts,         \* `attempts` of runHealthChecks
  i,                \* loop variable of the for loop of deploy()
  rollbackList,     \* `services` of rollback(): reversed keys still to visit
  deploymentsDir,   \* record files written under ../deployments
  exitCode          \* argument of process.exit (meaningful when pc = "exited")

\* state of the ProductionMonitor object (monitoring-dashboard.js)
VARIABLES
  services,            \* this.config.services, in configuration order
  interval,            \* this.config.monitoring.interval, in milliseconds
  notifications,       \* this.config.notifications (slack, webhook)
  alertsDir,           \* ../alerts: whether it can be written, and the day's file
  metrics,             \* this.metrics: service name -> metrics record
  alerts,              \* this.alerts
  now,                 \* Date.now(), in milliseconds since the monitor was built
  isMonitoring,        \* this.isMonitoring
  monitoringInterval,  \* this.monitoringInterval: "unset", "active" or "cleared"
  dashboardInterval,   \* this.dashboardInterval: "unset", "active" or "cleared"
  mpc,                 \* position of startMonitoring()
  rounds,              \* calls of runHealthChecks() still awaited, oldest first
  hist                 \* history: what has been called, performed and created so far

monitorVars == <<services, interval, notifications, alertsDir, metrics, alerts, now, isMonitoring, monitoringInterval,
                 dashboardInterval, mpc, rounds, hist>>

orchestratorVars ==
  <<argv0, backendDeps, frontendDeps, environment, config, deploymentState,
    logs, pc, error, svcIdx, attempts, i, rollbackList, deploymentsDir, exitCode>>

vars == <<orchestratorVars, monitorVars>>

\* what no step of the orchestrator writes: its inputs and the monitor, which
\* is a process of its own
inputVars == <<argv0, backendDeps, frontendDeps, monitorVars>>
objVars == <<environment, config>>
loopVars == <<svcIdx, attempts, i, rollbackList>>

\* ---------------------------------------------------------------- helpers
\* this.log(level, message, data): one entry appended to this.logs
LogEntry(level, msg, arg, n) ==
  [level |-> level, msg |-> msg, arg |-> arg, n |-> n, detail |-> ""]
Log_Unshift(l, level, msg, arg, n) == <<LogEntry(level, msg, arg, n)>> \o l
Log(l, level, msg, arg, n) == Append(l, LogEntry(level, msg, arg, n))

\* an entry about a health-check attempt; `detail` is what the endpoint
\* answered (the error.message at the end of a failed attempt's entry)
LogAttempt(l, level, msg, arg, n, answer) ==
  Append(l, [LogEntry(level, msg, arg, n) EXCEPT !.detail = answer])

\* args[0] || 'staging'
ResolveEnvironment(a) == IF a = "<absent>" \/ a = "" THEN "staging" ELSE a

\* loadConfig: the parsed file when it exists and parses, else the defaults;
\* the catch branch calls this.log before this.logs is assigned and throws
LoadConfigThrows(file) == file.state = "malformed"
LoadConfig(file) == IF file.state = "valid" THEN file.content ELSE DefaultConfig

Reverse_Forgotten(s) == s
Reverse(s) == [k \in 1..Len(s) |-> s[Len(s) + 1 - k]]

\* [...this.deploymentState.services.keys()]
ServiceKeys(st) == [k \in 1..Len(st.services) |-> st.services[k].name]

\* this.deploymentState.services.set(name, {status}): a new key goes last,
\* an existing key keeps its position
MapSet_NewKeyFirst(entries, name, status) ==
  <<[name |-> name, status |-> status]>> \o
    SelectSeq(entries, LAMBDA e : e.name # name)
MapSet(entries, name, status) ==
  IF \E k \in 1..Len(entries) : entries[k].name = name
  THEN [k \in 1..Len(entries) |->
          IF entries[k].name = name THEN [name |-> name, status |-> status] ELSE entries[k]]
  ELSE Append(entries, [name |-> name, status |-> status])

\* this.deploymentState.services.get(name).status
StatusOf(entries, name) ==
  (CHOOSE e \in {entries[k] : k \in 1..Len(entries)} : e.name = name).status

\* this.config.services[name]
ConfigOf(cfg, name) ==
  CHOOSE s \in {cfg.services[k] : k \in 1..Len(cfg.services)} : s.name = name

\* --------------------------------------------------------------- initial
\* ------------------------------------------------------------------ monitor: data
\* program constants of monitoring-dashboard.js
BufferCapacity == 100
AlertCapacity == 50
DedupWindow == 300000
FailureThreshold == 3
ResponseTimeThreshold == 2000
\* the thresholds 0.05 and 0.95, as percentages
ErrorRatePercent == 5
AvailabilityPercent == 95
HeapLimitMb == 100
MonitoringInterval == 30000

\* bounds of the model
MaxRounds == 2
MaxRenders == 1
MaxFastRounds == 3

\* this.config.services of the default configuration, and a configuration
\* passed to the constructor that watches one web page only
DefaultServices ==
  <<[name |-> "backend", type |-> "api"], [name |-> "frontend", type |-> "web"]>>
WebOnlyServices == <<[name |-> "frontend", type |-> "web"]>>

ServiceNames(svcs) == {svcs[k].name : k \in 1..Len(svcs)}
ServiceNamed(svcs, n) == svcs[CHOOSE k \in 1..Len(svcs) : svcs[k].name = n]

\* a quotient kept exact: numerator and denominator
Ratio(n, d) == [num |-> n, den |-> d]
One == Ratio(1, 1)

\* lastCheck: null
Never == -1

\* the metrics record the constructor stores for each service
InitialMetrics ==
  [status |-> "unknown", responseTime |-> <<>>, availability |-> One,
   errorCount |-> 0, totalRequests |-> 0, lastCheck |-> Never,
   consecutiveFailures |-> 0, deploymentHealth |-> "unknown"]

\* what each notification channel was handed, in order
NothingSent == [slack |-> <<>>, webhook |-> <<>>]

NoHistory(svcs) ==
  [stopped |-> FALSE, roundsStarted |-> 0, renders |-> 0, ticks |-> 0,
   performed |-> [n \in ServiceNames(svcs) |-> 0],
   failed |-> [n \in ServiceNames(svcs) |-> 0],
   subFailed |-> [n \in ServiceNames(svcs) |-> 0],
   created |-> <<>>, sent |-> NothingSent, evaluated |-> 0]

\* new ProductionMonitor(config)
\* the notifications of the constructor's object literal, and the other
\* setting a caller can pass
DefaultNotifications == [slack |-> FALSE, webhook |-> FALSE]
AllNotifications == [slack |-> TRUE, webhook |-> TRUE]

\* the alerts directory before the first alert of the day
AlertsDir(writable) == [writable |-> writable, daily |-> <<>>]

MonitorConfigured(svcs, ms) ==
  /\ services = svcs
  /\ interval = ms
  /\ metrics = [n \in ServiceNames(svcs) |-> InitialMetrics]
  /\ alerts = <<>>
  /\ now = 0
  /\ isMonitoring = FALSE
  /\ monitoringInterval = "unset"
  /\ dashboardInterval = "unset"
  /\ mpc = "constructed"
  /\ rounds = <<>>
  /\ hist = NoHistory(svcs)

\* new ProductionMonitor(): the default monitoring.interval and
\* notifications, and an alerts directory that can be written
MonitorConstructed(svcs) ==
  /\ MonitorConfigured(svcs, MonitoringInterval)
  /\ notifications = DefaultNotifications
  /\ alertsDir = AlertsDir(TRUE)

Init ==
  /\ MonitorConstructed(DefaultServices)
  /\ argv0 \in ArgValues
  /\ backendDeps \in BackendDepSets
  /\ frontendDeps \in FrontendDepSets
  /\ environment = "staging"
  /\ config = DefaultConfig
  /\ deploymentState = [phase |-> "initialized", currentStep |-> 0,
                        totalSteps |-> 0, services |-> <<>>]
  /\ logs = <<>>
  /\ pc = "main"
  /\ error = NoError
  /\ svcIdx = 0
  /\ attempts = 0
  /\ i = 0
  /\ rollbackList = <<>>
  /\ deploymentsDir = {}
  /\ exitCode = 0

\* ------------------------------------------------------------------ main
\* main(): invalid environment name, process.exit(1) before construction
MainInvalidEnvironment ==
  /\ pc = "main"
  /\ ResolveEnvironment(argv0) \notin validEnvironments
  /\ pc' = "exited"
  /\ exitCode' = 1
  /\ UNCHANGED <<inputVars, objVars, deploymentState, logs, error, loopVars, deploymentsDir>>

\* main(): new DeploymentOrchestrator({environment}) with a loadable config
MainConstruct ==
  /\ pc = "main"
  /\ ResolveEnvironment(argv0) \in validEnvironments
  /\ \E file \in ConfigFiles :
       /\ ~LoadConfigThrows(file)
       /\ config' = LoadConfig(file)
  /\ environment' = ResolveEnvironment(argv0)
  /\ deploymentState' = [phase |-> "initialized", currentStep |-> 0,
                         totalSteps |-> 0, services |-> <<>>]
  /\ logs' = <<>>
  /\ pc' = "deploy"
  /\ UNCHANGED <<inputVars, error, loopVars, deploymentsDir, exitCode>>

\* main(): the constructor throws out of loadConfig's catch branch (this.logs
\* is still undefined there); main's promise rejects with nobody handling it,
\* and the runtime ends the process with 1 (or 0 on runtimes that only warn)
MainConstructThrows ==
  /\ pc = "main"
  /\ ResolveEnvironment(argv0) \in validEnvironments
  /\ \E file \in ConfigFiles : LoadConfigThrows(file)
  /\ environment' = ResolveEnvironment(argv0)
  /\ error' = Err("TypeError", "logs", 0, "")
  /\ pc' = "exited"
  /\ \E code \in {0, 1} : exitCode' = code
  /\ UNCHANGED <<inputVars, config, deploymentState, logs, loopVars, deploymentsDir>>

\* ---------------------------------------------------------------- deploy
\* deploy(): phase = 'started', the steps array, totalSteps = steps.length
DeployBegin_NoTotal ==
  /\ pc = "deploy"
  /\ deploymentState' = [deploymentState EXCEPT !.phase = "started"]
  /\ logs' = Log(logs, "info", "Starting deployment", environment, 0)
  /\ i' = 0
  /\ pc' = "loop"
  /\ UNCHANGED <<inputVars, objVars, error, svcIdx, attempts, rollbackList,
                 deploymentsDir, exitCode>>
DeployBegin ==
  /\ pc = "deploy"
  /\ deploymentState' = [deploymentState EXCEPT !.phase = "started",
                                                !.totalSteps = TotalSteps]
  /\ logs' = Log(logs, "info", "Starting deployment", environment, 0)
  /\ i' = 0
  /\ pc' = "loop"
  /\ UNCHANGED <<inputVars, objVars, error, svcIdx, attempts, rollbackList,
                 deploymentsDir, exitCode>>

\* steps[i] of deploy(), by the position of its first statement
StepEntry_Swapped ==
  <<"validateEnvironment", "runSecurityAudit", "deployServices", "runSmokeTests",
    "runHealthChecks", "updateTrafficRouting", "clearCaches">>
StepEntry ==
  <<"validateEnvironment", "runSecurityAudit", "deployServices", "runHealthChecks",
    "runSmokeTests", "updateTrafficRouting", "clearCaches">>

\* the name of step k of the pipeline
StepName ==
  <<"validateEnvironment", "runPreDeploymentChecks", "deployServices", "runHealthChecks",
    "runSmokeTests", "updateTrafficRouting", "runPostDeploymentTasks">>

\* for loop of deploy(): currentStep = i + 1, log, call steps[i]
StepBegin ==
  /\ pc = "loop"
  /\ i < TotalSteps
  /\ deploymentState' = [deploymentState EXCEPT !.currentStep = i + 1]
  /\ logs' = Log(logs, "info", "Step", "", i + 1)
  /\ pc' = StepEntry[i + 1]
  /\ UNCHANGED <<inputVars, objVars, error, loopVars, deploymentsDir, exitCode>>

\* deploy(): steps[i]() resolved
StepCompleted ==
  /\ pc = "step_ok"
  /\ logs' = Log(logs, "success", "Step completed successfully", "", i + 1)
  /\ i' = i + 1
  /\ pc' = "loop"
  /\ UNCHANGED <<inputVars, objVars, deploymentState, error, svcIdx, attempts,
                 rollbackList, deploymentsDir, exitCode>>

\* handleDeploymentFailure: rollback when failedStep >= 2
RollbackRequired_OffByOne(failedStep) == failedStep > RollbackFromStep
RollbackRequired(failedStep) == failedStep >= RollbackFromStep

\* deploy(): catch of the inner try, with handleDeploymentFailure(error, i)
\* up to its decision; the error is re-thrown once rollback has returned
StepFailed_RecordFirst ==
  /\ pc = "step_catch"
  /\ logs' = Log(Log(logs, "error", "Step failed", error.kind, i + 1),
                 "error", "Deployment failed at step", error.kind, i + 1)
  /\ pc' = "deploymentFailure"
  /\ UNCHANGED <<inputVars, objVars, deploymentState, error, loopVars,
                 deploymentsDir, exitCode>>
StepFailed ==
  /\ pc = "step_catch"
  /\ logs' = Log(Log(logs, "error", "Step failed", error.kind, i + 1),
                 "error", "Deployment failed at step", error.kind, i + 1)
  /\ pc' = IF RollbackRequired(i) THEN "rollback" ELSE "deploymentFailure"
  /\ UNCHANGED <<inputVars, objVars, deploymentState, error, loopVars,
                 deploymentsDir, exitCode>>

\* deploy(): the loop ran off its end
LoopExit ==
  /\ pc = "loop"
  /\ ~(i < TotalSteps)
  /\ pc' = "deploymentSuccess"
  /\ UNCHANGED <<inputVars, objVars, deploymentState, logs, error, loopVars,
                 deploymentsDir, exitCode>>

\* ---------------------------------------------------- step 1: validation
\* validateEnvironment: the first unavailable tool or missing file throws
\* (the git status check can only add a warning and is left out)
ValidateEnvironment ==
  /\ pc = "validateEnvironment"
  /\ \E missingTool \in 0..Len(requiredTools), missingFile \in 0..Len(requiredFiles) :
       LET l0 == Log(logs, "info", "Validating deployment environment", "", 0)
           toolsOk == IF missingTool = 0 THEN Len(requiredTools) ELSE missingTool - 1
           l1 == l0 \o [k \in 1..toolsOk |->
                          LogEntry("success", "tool is available", requiredTools[k], 0)]
       IN  IF missingTool # 0
           THEN /\ logs' = l1
                /\ error' = Err("RequiredToolNotAvailable", requiredTools[missingTool], 0, "")
                /\ pc' = "step_catch"
           ELSE IF missingFile # 0
           THEN /\ logs' = l1
                /\ error' = Err("RequiredFileNotFound", requiredFiles[missingFile], 0, "")
                /\ pc' = "step_catch"
           ELSE /\ logs' = Log(l1, "success", "Environment validation completed", "", 0)
                /\ error' = error
                /\ pc' = "step_ok"
  /\ UNCHANGED <<inputVars, objVars, deploymentState, loopVars, deploymentsDir, exitCode>>

\* ------------------------------------------ step 2: pre-deployment checks
\* runSecurityAudit: the catch branch throws in production only
AuditFatal_Always(env) == TRUE
AuditFatal(env) == env = "production"

\* runPreDeploymentChecks up to and including runSecurityAudit
RunSecurityAudit ==
  /\ pc = "runSecurityAudit"
  /\ \E findings \in BOOLEAN :
       LET l0 == Log(Log(logs, "info", "Running pre-deployment checks", "", 0),
                     "info", "Running security audit", "", 0)
       IN  IF ~findings
           THEN /\ logs' = Log(l0, "success", "Security audit passed", "", 0)
                /\ error' = error
                /\ pc' = "analyzeDependencies"
           ELSE IF AuditFatal(environment)
           THEN /\ logs' = l0
                /\ error' = Err("SecurityVulnerabilitiesFound", "production", 0, "")
                /\ pc' = "step_catch"
           ELSE /\ logs' = Log(l0, "warn", "Security audit found issues", "", 0)
                /\ error' = error
                /\ pc' = "analyzeDependencies"
  /\ UNCHANGED <<inputVars, objVars, deploymentState, loopVars, deploymentsDir, exitCode>>

\* allDeps.includes(pkg) for the packages of problematicPackages, in order
DetectedPackages_FirstOnly(allDeps) ==
  SelectSeq(<<Head(problematicPackages)>>, LAMBDA p : p \in allDeps)
DetectedPackages(allDeps) ==
  SelectSeq(problematicPackages, LAMBDA p : p \in allDeps)

\* analyzeDependencies: the first problematic package found throws
AnalyzeDependencies ==
  /\ pc = "analyzeDependencies"
  /\ LET allDeps == backendDeps \cup frontendDeps
         found == DetectedPackages(allDeps)
         l0 == Log(logs, "info", "Analyzing dependencies", "", 0)
     IN  IF found # <<>>
         THEN /\ logs' = l0
              /\ error' = Err("ProblematicPackageDetected", Head(found), 0, "")
              /\ pc' = "step_catch"
         ELSE /\ logs' = Log(l0, "success", "Dependency analysis completed", "", 0)
              /\ error' = error
              /\ pc' = "runPerformanceTests"
  /\ UNCHANGED <<inputVars, objVars, deploymentState, loopVars, deploymentsDir, exitCode>>

\* runPerformanceTests: health request, then ten concurrent requests (the
\* measured response time only selects the level of one log line)
RunPerformanceTests ==
  /\ pc = "runPerformanceTests"
  /\ \E outcome \in {"ok", "health failed", "concurrent failed"} :
       LET l0 == Log(logs, "info", "Running performance tests", "", 0)
           l1 == Log(l0, "success", "Response time", "", 0)
       IN  CASE outcome = "health failed" ->
                  /\ logs' = l0
                  /\ error' = Err("HealthCheckFailedInPerformanceTest", "", 0, "")
                  /\ pc' = "step_catch"
             [] outcome = "concurrent failed" ->
                  /\ logs' = l1
                  /\ error' = Err("ConcurrentRequestTestFailed", "", 0, "")
                  /\ pc' = "step_catch"
             [] OTHER ->
                  /\ logs' = Log(l1, "success", "Performance tests passed", "", 0)
                  /\ error' = error
                  /\ pc' = "runDatabaseMigrations"
  /\ UNCHANGED <<inputVars, objVars, deploymentState, loopVars, deploymentsDir, exitCode>>

\* runDatabaseMigrations and the closing log of runPreDeploymentChecks
RunDatabaseMigrations ==
  /\ pc = "runDatabaseMigrations"
  /\ LET l0 == Log(logs, "info", "Checking database migrations", "", 0)
         l1 == IF environment = "production"
               THEN Log(l0, "info", "Production database migration check required", "", 0)
               ELSE l0
     IN  logs' = Log(Log(l1, "success", "Database migrations completed", "", 0),
                     "success", "Pre-deployment checks completed", "", 0)
  /\ pc' = "step_ok"
  /\ UNCHANGED <<inputVars, objVars, deploymentState, error, loopVars, deploymentsDir, exitCode>>

\* ----------------------------------------------- step 3: deploy services
\* deployServices: Object.entries(this.config.services)
DeployServicesBegin ==
  /\ pc = "deployServices"
  /\ IF config.hasServices
     THEN /\ logs' = Log(logs, "info", "Deploying services", "", 0)
          /\ svcIdx' = 1
          /\ error' = error
          /\ pc' = "deployServices_loop"
     ELSE /\ logs' = Log(logs, "info", "Deploying services", "", 0)
          /\ svcIdx' = svcIdx
          /\ error' = Err("TypeError", "services", 0, "")
          /\ pc' = "step_catch"
  /\ UNCHANGED <<inputVars, objVars, deploymentState, attempts, i, rollbackList,
                 deploymentsDir, exitCode>>

\* what the shell commands of one deployService call can answer
DeployInputs ==
  [install : {"ok", "fail"}, tests : {"pass", "fail"},
   build : {"ok", "fail"}, publish : {"ok", "fail"}]

\* deployBackend: npm ci, npm test (fatal in production only), publish (a
\* failed `railway up` is caught and only warned about)
DeployBackend(env, in) ==
  LET l0 == <<LogEntry("info", "Building backend", "", 0)>>
  IN  IF in.install = "fail"
      THEN [logs |-> l0, thrown |-> "CommandFailed"]
      ELSE IF in.tests = "fail" /\ env = "production"
      THEN [logs |-> l0, thrown |-> "BackendTestsFailed"]
      ELSE LET l1 == IF in.tests = "fail"
                     THEN Append(l0, LogEntry("warn", "Backend tests failed", "", 0))
                     ELSE l0
               l2 == IF env = "production"
                     THEN Append(l1, LogEntry("info", "Deploying backend to production", "", 0))
                     ELSE Append(l1, LogEntry("info", "Deploying backend to staging", "", 0))
               l3 == IF env = "production" /\ in.publish = "fail"
                     THEN Append(l2, LogEntry("warn", "Railway deployment failed", "", 0))
                     ELSE l2
           IN  [logs |-> l3, thrown |-> "none"]

\* deployFrontend: npm ci, npm run build, publish (a failed `netlify deploy`
\* is caught and only warned about)
DeployFrontend(env, in) ==
  LET l0 == <<LogEntry("info", "Building frontend", "", 0)>>
  IN  IF in.install = "fail" \/ in.build = "fail"
      THEN [logs |-> l0, thrown |-> "CommandFailed"]
      ELSE LET l2 == IF env = "production"
                     THEN Append(l0, LogEntry("info", "Deploying frontend to production", "", 0))
                     ELSE Append(l0, LogEntry("info", "Deploying frontend to staging", "", 0))
               l3 == IF env = "production" /\ in.publish = "fail"
                     THEN Append(l2, LogEntry("warn", "Netlify deployment failed", "", 0))
                     ELSE l2
           IN  [logs |-> l3, thrown |-> "none"]

\* deployService: the switch on the service name
DeployService(name, env, in) ==
  CASE name = "backend" -> DeployBackend(env, in)
    [] name = "frontend" -> DeployFrontend(env, in)
    [] OTHER -> [logs |-> <<>>, thrown |-> "UnknownService"]

\* deployServices: one iteration of the for-of loop
DeployNextService ==
  /\ pc = "deployServices_loop"
  /\ svcIdx <= Len(config.services)
  /\ LET svc == config.services[svcIdx]
     IN  IF ~svc.enabled
         THEN /\ logs' = Log(logs, "info", "Skipping disabled service", svc.name, 0)
              /\ svcIdx' = svcIdx + 1
              /\ UNCHANGED <<deploymentState, error, pc>>
         ELSE \E in \in DeployInputs :
                LET r == DeployService(svc.name, environment, in)
                    l0 == Log(logs, "info", "Deploying service", svc.name, 0) \o r.logs
                IN  IF r.thrown = "none"
                    THEN /\ deploymentState' =
                              [deploymentState EXCEPT
                                 !.services = MapSet(@, svc.name, "deployed")]
                         /\ logs' = Log(l0, "success", "Service deployed successfully", svc.name, 0)
                         /\ svcIdx' = svcIdx + 1
                         /\ UNCHANGED <<error, pc>>
                    ELSE /\ deploymentState' =
                              [deploymentState EXCEPT
                                 !.services = MapSet(@, svc.name, "failed")]
                         /\ logs' = l0
                         /\ error' = Err("FailedToDeploy", svc.name, 0, r.thrown)
                         /\ pc' = "step_catch"
                         /\ svcIdx' = svcIdx
  /\ UNCHANGED <<inputVars, objVars, attempts, i, rollbackList, deploymentsDir, exitCode>>

\* deployServices: the loop is exhausted
DeployServicesDone ==
  /\ pc = "deployServices_loop"
  /\ svcIdx > Len(config.services)
  /\ logs' = Log(logs, "success", "All services deployed", "", 0)
  /\ pc' = "step_ok"
  /\ UNCHANGED <<inputVars, objVars, deploymentState, error, loopVars, deploymentsDir, exitCode>>

\* ------------------------------------------------- step 4: health checks
\* runHealthChecks: services = [...this.deploymentState.services.keys()]
RunHealthChecksBegin ==
  /\ pc = "runHealthChecks"
  /\ logs' = Log(logs, "info", "Running health checks", "", 0)
  /\ svcIdx' = 1
  /\ attempts' = 0
  /\ pc' = "healthChecks_loop"
  /\ UNCHANGED <<inputVars, objVars, deploymentState, error, i, rollbackList,
                 deploymentsDir, exitCode>>

\* attempts < maxAttempts, where a missing healthCheckRetries is undefined
\* and every comparison with undefined is false
AttemptsLeft(att, deployment) ==
  deployment.hasRetries /\ att < deployment.healthCheckRetries

\* attempts === maxAttempts
AttemptsExhausted_OneEarly(att, deployment) ==
  deployment.hasRetries /\ att + 1 >= deployment.healthCheckRetries
AttemptsExhausted(att, deployment) ==
  deployment.hasRetries /\ att = deployment.healthCheckRetries

\* runHealthChecks: head of one for-of iteration, up to `const maxAttempts`
HealthCheckNextService ==
  /\ pc = "healthChecks_loop"
  /\ svcIdx <= Len(deploymentState.services)
  /\ LET name == ServiceKeys(deploymentState)[svcIdx]
     IN  IF ~ConfigOf(config, name).enabled
         THEN /\ svcIdx' = svcIdx + 1
              /\ UNCHANGED <<logs, attempts, error, pc>>
         ELSE /\ logs' = Log(logs, "info", "Health checking service", name, 0)
              /\ attempts' = 0
              /\ svcIdx' = svcIdx
              /\ IF config.deployment.present
                 THEN /\ pc' = "healthChecks_attempt"
                      /\ error' = error
                 ELSE /\ pc' = "step_catch"
                      /\ error' = Err("TypeError", "deployment", 0, "")
  /\ UNCHANGED <<inputVars, objVars, deploymentState, i, rollbackList, deploymentsDir, exitCode>>

\* healthCheckService: the answers of the health endpoint that make it throw
HealthAnswers == {"2xx healthy", "2xx unhealthy body", "non-2xx"}

\* what healthCheckService reads of an answer: the status, and for the
\* backend the JSON body of a 2xx response
AnswerRead(name, answer) ==
  IF name = "backend" \/ answer = "non-2xx" THEN answer ELSE "2xx"

\* healthCheckService returns: response.ok, and for the backend a body whose
\* status is 'healthy'
HealthCheckPasses_StatusOnly(name, answer) == answer # "non-2xx"
HealthCheckPasses(name, answer) ==
  /\ answer # "non-2xx"
  /\ name = "backend" => answer = "2xx healthy"

\* runHealthChecks: one iteration of the while loop
HealthCheckAttempt ==
  /\ pc = "healthChecks_attempt"
  /\ AttemptsLeft(attempts, config.deployment)
  /\ LET name == ServiceKeys(deploymentState)[svcIdx]
     IN  \E answer \in HealthAnswers :
           /\ attempts' = attempts + 1
           /\ IF HealthCheckPasses(name, answer)
              THEN /\ logs' = LogAttempt(logs, "success", "Health check passed", name, 0,
                                          AnswerRead(name, answer))
                   /\ svcIdx' = svcIdx + 1
                   /\ pc' = "healthChecks_loop"
                   /\ error' = error
              ELSE /\ logs' = LogAttempt(logs, "warn", "Health check attempt failed", name,
                                          attempts', AnswerRead(name, answer))
                   /\ svcIdx' = svcIdx
                   /\ IF AttemptsExhausted(attempts', config.deployment)
                      THEN /\ error' = Err("HealthCheckFailed", name,
                                           config.deployment.healthCheckRetries, "")
                           /\ pc' = "step_catch"
                      ELSE /\ error' = error
                           /\ pc' = "healthChecks_attempt"
  /\ UNCHANGED <<inputVars, objVars, deploymentState, i, rollbackList, deploymentsDir, exitCode>>

\* runHealthChecks: the while condition is false without a passed attempt
HealthCheckWhileExit ==
  /\ pc = "healthChecks_attempt"
  /\ ~AttemptsLeft(attempts, config.deployment)
  /\ svcIdx' = svcIdx + 1
  /\ pc' = "healthChecks_loop"
  /\ UNCHANGED <<inputVars, objVars, deploymentState, logs, error, attempts, i,
                 rollbackList, deploymentsDir, exitCode>>

\* runHealthChecks: the for-of loop is exhausted
RunHealthChecksDone ==
  /\ pc = "healthChecks_loop"
  /\ svcIdx > Len(deploymentState.services)
  /\ logs' = Log(logs, "success", "All health checks passed", "", 0)
  /\ pc' = "step_ok"
  /\ UNCHANGED <<inputVars, objVars, deploymentState, error, loopVars, deploymentsDir, exitCode>>

\* --------------------------------------------------- step 5: smoke tests
criticalEndpoints == <<"/api/status", "/api/quests">>

\* runSmokeTests: the critical endpoints in order, then the frontend
RunSmokeTests ==
  /\ pc = "runSmokeTests"
  /\ \E failing \in 0..(Len(criticalEndpoints) + 1) :
       LET l0 == Log(logs, "info", "Running smoke tests", "", 0)
           passed == IF failing = 0 THEN Len(criticalEndpoints)
                     ELSE IF failing <= Len(criticalEndpoints) THEN failing - 1
                     ELSE Len(criticalEndpoints)
           l1 == l0 \o [k \in 1..passed |->
                          LogEntry("success", "endpoint ok", criticalEndpoints[k], 0)]
       IN  IF failing = 0
           THEN /\ logs' = Log(Log(l1, "success", "Frontend connectivity", "", 0),
                               "success", "Smoke tests passed", "", 0)
                /\ error' = error
                /\ pc' = "step_ok"
           ELSE IF failing <= Len(criticalEndpoints)
           THEN /\ logs' = l1
                /\ error' = Err("SmokeTestFailed", criticalEndpoints[failing], 0, "")
                /\ pc' = "step_catch"
           ELSE /\ logs' = l1
                /\ error' = Err("FrontendSmokeTestFailed", "frontend", 0, "")
                /\ pc' = "step_catch"
  /\ UNCHANGED <<inputVars, objVars, deploymentState, loopVars, deploymentsDir, exitCode>>

\* ------------------------------------------------ step 6: traffic routing
\* updateTrafficRouting, with performBlueGreenSwitch
UpdateTrafficRouting ==
  /\ pc = "updateTrafficRouting"
  /\ LET l0 == Log(logs, "info", "Updating traffic routing", "", 0)
     IN  IF ~config.deployment.present
         THEN /\ logs' = l0
              /\ error' = Err("TypeError", "deployment", 0, "")
              /\ pc' = "step_catch"
         ELSE /\ logs' =
                   Log(IF config.deployment.strategy = "blue-green"
                       THEN Log(Log(l0, "info", "Performing blue-green deployment switch", "", 0),
                                "success", "Blue-green switch completed", "", 0)
                       ELSE Log(l0, "info", "Using rolling deployment", "", 0),
                       "success", "Traffic routing updated", "", 0)
              /\ error' = error
              /\ pc' = "step_ok"
  /\ UNCHANGED <<inputVars, objVars, deploymentState, loopVars, deploymentsDir, exitCode>>

\* ------------------------------------------- step 7: post-deployment tasks
\* runPostDeploymentTasks up to and including clearCaches
ClearCaches ==
  /\ pc = "clearCaches"
  /\ logs' = Log(Log(Log(logs, "info", "Running post-deployment tasks", "", 0),
                     "info", "Clearing caches", "", 0),
                 "success", "Caches cleared", "", 0)
  /\ pc' = "notifyMonitoring"
  /\ UNCHANGED <<inputVars, objVars, deploymentState, error, loopVars, deploymentsDir, exitCode>>

\* notifyMonitoring
NotifyMonitoring ==
  /\ pc = "notifyMonitoring"
  /\ logs' = Log(Log(logs, "info", "Notifying monitoring systems", "", 0),
                 "success", "Monitoring systems notified", "", 0)
  /\ pc' = "sendDeploymentNotifications"
  /\ UNCHANGED <<inputVars, objVars, deploymentState, error, loopVars, deploymentsDir, exitCode>>

\* sendDeploymentNotifications, with the slack and webhook senders
SendDeploymentNotifications ==
  /\ pc = "sendDeploymentNotifications"
  /\ LET l0 == Log(logs, "info", "Sending deployment notifications", "", 0)
         n == config.notifications
         l1 == IF n.slack THEN Log(l0, "info", "Slack notification sent", "", 0) ELSE l0
         l2 == IF n.webhook THEN Log(l1, "info", "Webhook notification sent", "", 0) ELSE l1
     IN  IF ~n.present
         THEN /\ logs' = l0
              /\ error' = Err("TypeError", "notifications", 0, "")
              /\ pc' = "step_catch"
         ELSE /\ logs' = Log(l2, "success", "Deployment notifications sent", "", 0)
              /\ error' = error
              /\ pc' = "createDeploymentRecord"
  /\ UNCHANGED <<inputVars, objVars, deploymentState, loopVars, deploymentsDir, exitCode>>

\* outcome of fs.mkdirSync followed by fs.writeFileSync
WriteOutcomes == {"written", "throws"}

\* recordPath of createDeploymentRecord and of createFailureRecord
SuccessRecordFile == "<id>.json"
FailureRecordFile_SameName == "<id>.json"
FailureRecordFile == "<id>-failed.json"

\* the document of createDeploymentRecord / createFailureRecord
Record(file, status, err, st, l) ==
  [file |-> file, status |-> status, error |-> err, services |-> st.services, logs |-> l]

\* createDeploymentRecord and the closing log of runPostDeploymentTasks
CreateDeploymentRecord ==
  /\ pc = "createDeploymentRecord"
  /\ \E w \in WriteOutcomes :
       LET l0 == Log(logs, "info", "Creating deployment record", "", 0)
       IN  IF w = "written"
           THEN /\ deploymentsDir' = deploymentsDir \cup
                     {Record(SuccessRecordFile, "success", NoError, deploymentState, l0)}
                /\ logs' = Log(Log(l0, "success", "Deployment record saved", "", 0),
                               "success", "Post-deployment tasks completed", "", 0)
                /\ error' = error
                /\ pc' = "step_ok"
           ELSE /\ deploymentsDir' = deploymentsDir
                /\ logs' = l0
                /\ error' = Err("FsError", SuccessRecordFile, 0, "")
                /\ pc' = "step_catch"
  /\ UNCHANGED <<inputVars, objVars, deploymentState, loopVars, exitCode>>

\* --------------------------------------------------------------- rollback
\* rollback: services = [...this.deploymentState.services.keys()].reverse()
RollbackBegin ==
  /\ pc = "rollback"
  /\ logs' = Log(logs, "warn", "Initiating rollback procedure", "", 0)
  /\ rollbackList' = Reverse(ServiceKeys(deploymentState))
  /\ pc' = "rollback_loop"
  /\ UNCHANGED <<inputVars, objVars, deploymentState, error, svcIdx, attempts, i,
                 deploymentsDir, exitCode>>

\* rollback: `service.status === 'deployed'`
ShouldRollback(entries, name) == StatusOf(entries, name) = "deployed"

\* rollback: one iteration of the for-of loop, with rollbackService (which
\* only logs)
RollbackNext ==
  /\ pc = "rollback_loop"
  /\ rollbackList # <<>>
  /\ LET name == Head(rollbackList)
     IN  logs' = IF ShouldRollback(deploymentState.services, name)
                 THEN Log(Log(logs, "info", "Rolling back service", name, 0),
                          "success", "Service rolled back", name, 0)
                 ELSE logs
  /\ rollbackList' = Tail(rollbackList)
  /\ UNCHANGED <<inputVars, objVars, deploymentState, error, pc, svcIdx, attempts, i,
                 deploymentsDir, exitCode>>

\* rollback: the loop is exhausted; handleDeploymentFailure returns and
\* deploy() re-throws the step's error to its outer catch
RollbackDone ==
  /\ pc = "rollback_loop"
  /\ rollbackList = <<>>
  /\ logs' = Log(logs, "success", "Rollback completed successfully", "", 0)
  /\ pc' = "deploymentFailure"
  /\ UNCHANGED <<inputVars, objVars, deploymentState, error, loopVars, deploymentsDir, exitCode>>

\* ------------------------------------------------------------ termination
\* deploymentSuccess; deploy() resolves
DeploymentSuccess ==
  /\ pc = "deploymentSuccess"
  /\ logs' = Log(Log(logs, "success", "Deployment completed successfully", "", 0),
                 "info", "Total duration", "", 0)
  /\ pc' = "main_resolved"
  /\ UNCHANGED <<inputVars, objVars, deploymentState, error, loopVars, deploymentsDir, exitCode>>

\* outer catch of deploy(): deploymentFailure with createFailureRecord;
\* deploy() rejects with the step's error, or with the error of the write
DeploymentFailure ==
  /\ pc = "deploymentFailure"
  /\ \E w \in WriteOutcomes :
       LET l0 == Log(Log(logs, "error", "Deployment failed", error.kind, 0),
                     "info", "Duration before failure", "", 0)
       IN  IF w = "written"
           THEN /\ deploymentsDir' = deploymentsDir \cup
                     {Record(FailureRecordFile, "failed", error, deploymentState, l0)}
                /\ logs' = Log(l0, "info", "Failure record saved", "", 0)
                /\ error' = error
           ELSE /\ deploymentsDir' = deploymentsDir
                /\ logs' = l0
                /\ error' = Err("FsError", FailureRecordFile, 0, "")
  /\ pc' = "main_rejected"
  /\ UNCHANGED <<inputVars, objVars, deploymentState, loopVars, exitCode>>

\* main(): process.exit(0) after deploy() resolved
MainExitSuccess ==
  /\ pc = "main_resolved"
  /\ pc' = "exited"
  /\ exitCode' = 0
  /\ UNCHANGED <<inputVars, objVars, deploymentState, logs, error, loopVars, deploymentsDir>>

\* main(): process.exit(1) in the catch of deploy()
MainExitFailure ==
  /\ pc = "main_rejected"
  /\ pc' = "exited"
  /\ exitCode' = 1
  /\ UNCHANGED <<inputVars, objVars, deploymentState, logs, error, loopVars, deploymentsDir>>

\* ------------------------------------------------------------------ spec
Next ==
  \/ MainInvalidEnvironment
  \/ MainConstruct
  \/ MainConstructThrows
  \/ DeployBegin
  \/ StepBegin
  \/ StepCompleted
  \/ StepFailed
  \/ LoopExit
  \/ ValidateEnvironment
  \/ RunSecurityAudit
  \/ AnalyzeDependencies
  \/ RunPerformanceTests
  \/ RunDatabaseMigrations
  \/ DeployServicesBegin
  \/ DeployNextService
  \/ DeployServicesDone
  \/ RunHealthChecksBegin
  \/ HealthCheckNextService
  \/ HealthCheckAttempt
  \/ HealthCheckWhileExit
  \/ RunHealthChecksDone
  \/ RunSmokeTests
  \/ UpdateTrafficRouting
  \/ ClearCaches
  \/ NotifyMonitoring
  \/ SendDeploymentNotifications
  \/ CreateDeploymentRecord
  \/ RollbackBegin
  \/ RollbackNext
  \/ RollbackDone
  \/ DeploymentSuccess
  \/ DeploymentFailure
  \/ MainExitSuccess
  \/ MainExitFailure

Spec == Init /\ [][Next]_vars

\* ============================================================ monitor
\* The operators below work on a store M = [metrics, alerts, created]: the
\* two collections of the object and the history of every alert ever pushed.
Store(m, a, c, cfg, dir, sent) ==
  [metrics |-> m, alerts |-> a, created |-> c, notifications |-> cfg,
   dir |-> dir, sent |-> sent]

\* ------------------------------------------------------------------ createAlert
\* an alert object; the message is kept as its template and the number
\* interpolated into it
Alert(sev, svc, text, n, t) ==
  [severity |-> sev, service |-> svc, message |-> [text |-> text, n |-> n],
   timestamp |-> t]

\* this.alerts.some(...): toISOString() and new Date(...).getTime() keep the
\* millisecond, which is the unit of `now`
IsDuplicate(al, a, t) ==
  \E k \in 1..Len(al) :
    /\ al[k].service = a.service
    /\ al[k].message = a.message
    /\ t - al[k].timestamp < DedupWindow

\* mutant: pop instead of shift
PushAlert_DropsNewest(al, a) ==
  LET pushed == Append(al, a)
  IN IF Len(pushed) > AlertCapacity THEN SubSeq(pushed, 1, AlertCapacity) ELSE pushed

\* push, then shift while the list is longer than 50
PushAlert(al, a) ==
  LET pushed == Append(al, a)
  IN IF Len(pushed) > AlertCapacity THEN Tail(pushed) ELSE pushed

\* saveAlert: the day's file is read, the alert pushed and the file written;
\* a failure of any of these is caught and only printed
SaveAlert_Silent(M, a) == M
SaveAlert(M, a) ==
  IF M.dir.writable THEN [M EXCEPT !.dir.daily = Append(@, a)] ELSE M

\* sendAlert: the configured channels in turn, then saveAlert. With a
\* channel switched on the rest runs after an await, as microtasks of the
\* same callback: each channel and the file get the alerts in the order of
\* the createAlert calls.
SendAlert(M, a) ==
  LET M1 == IF M.notifications.slack THEN [M EXCEPT !.sent.slack = Append(@, a)] ELSE M
      M2 == IF M1.notifications.webhook
            THEN [M1 EXCEPT !.sent.webhook = Append(@, a)] ELSE M1
  IN SaveAlert(M2, a)

CreateAlert(M, a, t) ==
  IF IsDuplicate(M.alerts, a, t)
  THEN M
  ELSE SendAlert([M EXCEPT !.alerts = PushAlert(@, a), !.created = Append(@, a)], a)

\* ------------------------------------------------------------------ checkServiceHealth
\* mutant: pop instead of shift
PushSample_KeepsOldest(buf, rt) ==
  LET pushed == Append(buf, rt)
  IN IF Len(pushed) > BufferCapacity THEN SubSeq(pushed, 1, BufferCapacity) ELSE pushed

\* push, then shift while the buffer is longer than 100
PushSample(buf, rt) ==
  LET pushed == Append(buf, rt)
  IN IF Len(pushed) > BufferCapacity THEN Tail(pushed) ELSE pushed

CalculateAvailability(m) ==
  IF m.totalRequests = 0
  THEN One
  ELSE Ratio(m.totalRequests - m.errorCount, m.totalRequests)

\* lines 119-127: fetch resolved with a response, whatever its status
Responded(M, n, rt) ==
  [M EXCEPT !.metrics[n].totalRequests = @ + 1,
            !.metrics[n].responseTime = PushSample(@, rt)]

\* mutant: the failure count survives a success
MarkHealthy_KeepsFailures(M, n) ==
  [M EXCEPT !.metrics[n].status = "healthy"]

\* lines 130-131
MarkHealthy(M, n) ==
  [M EXCEPT !.metrics[n].status = "healthy",
            !.metrics[n].consecutiveFailures = 0]

Caught_StatusKept(M, n, t) ==
  LET M1 == [M EXCEPT !.metrics[n].errorCount = @ + 1,
                      !.metrics[n].consecutiveFailures = @ + 1]
      failures == M1.metrics[n].consecutiveFailures
  IN IF failures >= FailureThreshold
     THEN CreateAlert(M1, Alert("critical", n,
                                "Service has failed consecutive health checks",
                                failures, t), t)
     ELSE M1
Caught_AlertsLate(M, n, t) ==
  LET M1 == [M EXCEPT !.metrics[n].status = "unhealthy",
                      !.metrics[n].errorCount = @ + 1,
                      !.metrics[n].consecutiveFailures = @ + 1]
      failures == M1.metrics[n].consecutiveFailures
  IN IF failures > FailureThreshold
     THEN CreateAlert(M1, Alert("critical", n,
                                "Service has failed consecutive health checks",
                                failures, t), t)
     ELSE M1
\* the catch block, lines 142-158
Caught(M, n, t) ==
  LET M1 == [M EXCEPT !.metrics[n].status = "unhealthy",
                      !.metrics[n].errorCount = @ + 1,
                      !.metrics[n].consecutiveFailures = @ + 1]
      failures == M1.metrics[n].consecutiveFailures
  IN IF failures >= FailureThreshold
     THEN CreateAlert(M1, Alert("critical", n,
                                "Service has failed consecutive health checks",
                                failures, t), t)
     ELSE M1

\* lines 160-161
Finish(M, n, t) ==
  [M EXCEPT !.metrics[n].lastCheck = t,
            !.metrics[n].availability = CalculateAvailability(M.metrics[n])]

\* how the first fetch of a check can settle: a 2xx response, another
\* response, or a rejection (network error, timeout)
FetchOutcomes == {"ok", "status", "error"}

\* Date.now() - startTime of a check, in milliseconds
ResponseTimes == {150}

\* against an interval shorter than the default one also an answer that
\* takes longer than the interval and than the response-time threshold
SlowResponseTime == 2500
ResponseTimesOf(ms) ==
  IF ms < MonitoringInterval THEN ResponseTimes \cup {SlowResponseTime} ELSE ResponseTimes

\* checkServiceHealth from the settling of fetch up to the next await or the end
AfterFetch(M, svc, outcome, rt, t) ==
  CASE outcome = "ok" ->
         IF svc.type = "api"
         THEN MarkHealthy(Responded(M, svc.name, rt), svc.name)
         ELSE Finish(MarkHealthy(Responded(M, svc.name, rt), svc.name), svc.name, t)
    [] outcome = "status" ->
         Finish(Caught(Responded(M, svc.name, rt), svc.name, t), svc.name, t)
    [] outcome = "error" ->
         Finish(Caught(M, svc.name, t), svc.name, t)

\* ------------------------------------------------------------------ checkApiHealth
\* what GET <url>/health can give: no usable answer (rejection, non-2xx
\* status, body that is not JSON), or a JSON body
ApiAnswer(ok, status, perf, avg, heap) ==
  [ok |-> ok, status |-> status, performance |-> perf,
   avg_response_time_ms |-> avg, heap_used_mb |-> heap]

ApiAnswers ==
  { ApiAnswer(FALSE, "none", FALSE, 0, 0),
    ApiAnswer(TRUE, "healthy", FALSE, 0, 0),
    ApiAnswer(TRUE, "degraded", TRUE, 2500, 150) }

\* mutant: a failed sub-check counts as a failed check
CheckApiHealth_CountsFailure(M, n, ans, t) ==
  IF ~ans.ok
  THEN [M EXCEPT !.metrics[n].deploymentHealth = "unhealthy",
                 !.metrics[n].errorCount = @ + 1]
  ELSE M

CheckApiHealth(M, n, ans, t) ==
  IF ~ans.ok
  THEN [M EXCEPT !.metrics[n].deploymentHealth = "unhealthy"]
  ELSE
    LET M1 == IF ans.status = "healthy"
              THEN [M EXCEPT !.metrics[n].deploymentHealth = "healthy"]
              ELSE CreateAlert([M EXCEPT !.metrics[n].deploymentHealth = "degraded"],
                               Alert("warning", n, "API reports degraded health", 0, t), t)
        M2 == IF ans.performance /\ ans.avg_response_time_ms > ResponseTimeThreshold
              THEN CreateAlert(M1, Alert("warning", n, "High average response time",
                                         ans.avg_response_time_ms, t), t)
              ELSE M1
    IN IF ans.performance /\ ans.heap_used_mb > HeapLimitMb
       THEN CreateAlert(M2, Alert("warning", n, "High memory usage", ans.heap_used_mb, t), t)
       ELSE M2

\* ------------------------------------------------------------------ figures
\* reduce((a, b) => a + b, 0) over integers, summed by halves
RECURSIVE Sum(_)
Sum(seq) ==
  IF Len(seq) = 0 THEN 0
  ELSE IF Len(seq) = 1 THEN seq[1]
  ELSE LET half == Len(seq) \div 2
       IN Sum(SubSeq(seq, 1, half)) + Sum(SubSeq(seq, half + 1, Len(seq)))

\* Math.round(a / b) for a >= 0, b > 0
RoundDiv(a, b) == (2 * a + b) \div (2 * b)

CalculateAverageResponseTime(m) ==
  IF Len(m.responseTime) = 0 THEN 0
  ELSE RoundDiv(Sum(m.responseTime), Len(m.responseTime))

\* (x * 100).toFixed(2) of a quotient x, in hundredths of a percent
ToFixed2(r) ==
  IF r.num >= 0 THEN RoundDiv(10000 * r.num, r.den)
  ELSE 0 - RoundDiv(10000 * (0 - r.num), r.den)

Max(a, b) == IF a > b THEN a ELSE b

\* ------------------------------------------------------------------ checkAlerts
\* mutant: without the availability comparison
CheckAlertsOf_ErrorRateOnly(M, n, t) ==
  LET m == M.metrics[n]
      errorRate == Ratio(m.errorCount, Max(m.totalRequests, 1))
  IN IF errorRate.num * 100 > ErrorRatePercent * errorRate.den
     THEN CreateAlert(M, Alert("critical", n, "High error rate", ToFixed2(errorRate), t), t)
     ELSE M

CheckAlertsOf_NoWarning(M, n, t) ==
  LET m == M.metrics[n]
      errorRate == Ratio(m.errorCount, Max(m.totalRequests, 1))
      M2 == IF errorRate.num * 100 > ErrorRatePercent * errorRate.den
            THEN CreateAlert(M, Alert("critical", n, "High error rate", ToFixed2(errorRate), t), t)
            ELSE M
  IN IF m.availability.num * 100 < AvailabilityPercent * m.availability.den
     THEN CreateAlert(M2, Alert("critical", n, "Low availability", ToFixed2(m.availability), t), t)
     ELSE M2

\* the three comparisons of checkAlerts for one service
CheckAlertsOf(M, n, t) ==
  LET m == M.metrics[n]
      avgResponseTime == CalculateAverageResponseTime(m)
      errorRate == Ratio(m.errorCount, Max(m.totalRequests, 1))
      M1 == IF avgResponseTime > ResponseTimeThreshold
            THEN CreateAlert(M, Alert("warning", n, "High response time", avgResponseTime, t), t)
            ELSE M
      M2 == IF errorRate.num * 100 > ErrorRatePercent * errorRate.den
            THEN CreateAlert(M1, Alert("critical", n, "High error rate", ToFixed2(errorRate), t), t)
            ELSE M1
  IN IF m.availability.num * 100 < AvailabilityPercent * m.availability.den
     THEN CreateAlert(M2, Alert("critical", n, "Low availability", ToFixed2(m.availability), t), t)
     ELSE M2

\* this.metrics.forEach: the Map keeps the order of this.config.services
RECURSIVE CheckAlertsFrom(_, _, _, _)
CheckAlertsFrom(M, svcs, k, t) ==
  IF k > Len(svcs) THEN M
  ELSE CheckAlertsFrom(CheckAlertsOf(M, svcs[k].name, t), svcs, k + 1, t)

CheckAlerts(M, svcs, t) == CheckAlertsFrom(M, svcs, 1, t)

\* ------------------------------------------------------------------ calculateOverallHealth
ServicesOnline(mt) == Cardinality({n \in DOMAIN mt : mt[n].status = "healthy"})

RECURSIVE SumOver(_, _, _)
SumOver(mt, names, field) ==
  IF names = {} THEN 0
  ELSE LET n == CHOOSE x \in names : TRUE
       IN (IF field = "totalRequests" THEN mt[n].totalRequests ELSE mt[n].errorCount)
          + SumOver(mt, names \ {n}, field)

\* totalErrors / totalRequests, or 0 without requests
OverallErrorRate(mt) ==
  LET totalRequests == SumOver(mt, DOMAIN mt, "totalRequests")
      totalErrors == SumOver(mt, DOMAIN mt, "errorCount")
  IN IF totalRequests > 0 THEN Ratio(totalErrors, totalRequests) ELSE Ratio(0, 1)

\* the `status` of the object calculateOverallHealth returns: three
\* assignments in a row, the later overriding the earlier
CalculateOverallHealth(mt) ==
  LET size == Cardinality(DOMAIN mt)
      servicesOnline == ServicesOnline(mt)
      rate == OverallErrorRate(mt)
      s1 == IF servicesOnline < size THEN "degraded" ELSE "healthy"
      s2 == IF 2 * servicesOnline < size THEN "critical" ELSE s1
  IN IF rate.num * 100 > ErrorRatePercent * rate.den THEN "degraded" ELSE s2

\* ------------------------------------------------------------------ displayDashboard
\* Array.prototype.sort((a, b) => a - b)
RECURSIVE Insert(_, _)
Insert(sorted, x) ==
  IF sorted = <<>> \/ x < Head(sorted) THEN <<x>> \o sorted
  ELSE <<Head(sorted)>> \o Insert(Tail(sorted), x)

RECURSIVE Sort(_)
Sort(seq) == IF seq = <<>> THEN <<>> ELSE Insert(Sort(Tail(seq)), Head(seq))

\* sorted[Math.floor(sorted.length * 0.95)] || 0
Percentile95(sorted) ==
  IF sorted = <<>> THEN 0 ELSE sorted[(Len(sorted) * 95) \div 100 + 1]

\* calculateP95ResponseTime: the value returned, and the buffer as the call
\* leaves it; the sort works on a copy made with the spread operator
CalculateP95ResponseTime_InPlace(m) ==
  [value |-> Percentile95(Sort(m.responseTime)), responseTime |-> Sort(m.responseTime)]
CalculateP95ResponseTime(m) ==
  [value |-> Percentile95(Sort(m.responseTime)), responseTime |-> m.responseTime]

\* displayDashboard: the status overview reads the metrics, the performance
\* section calls calculateAverageResponseTime and calculateP95ResponseTime,
\* the alert section reads a slice of this.alerts, the summary calls
\* calculateOverallHealth; what is left of the metrics after the calls
DisplayDashboard(mt) ==
  [n \in DOMAIN mt |->
     [mt[n] EXCEPT !.responseTime = CalculateP95ResponseTime(mt[n]).responseTime]]

\* ------------------------------------------------------------------ monitor: steps
CurrentStore ==
  Store(metrics, alerts, hist.created, notifications, alertsDir, hist.sent)

\* runHealthChecks(): one checkServiceHealth per service, each awaiting fetch
NewRound(kind) == [kind |-> kind, checks |-> [n \in ServiceNames(services) |-> "fetch"]]

RemoveAt(seq, r) == SubSeq(seq, 1, r - 1) \o SubSeq(seq, r + 1, Len(seq))

\* the orchestrator is another process; the monitor runs without it
OrchestratorIdle ==
  /\ argv0 = "<absent>"
  /\ backendDeps = {"express"}
  /\ frontendDeps = {"react"}
  /\ environment = "staging"
  /\ config = DefaultConfig
  /\ deploymentState = [phase |-> "initialized", currentStep |-> 0,
                        totalSteps |-> 0, services |-> <<>>]
  /\ logs = <<>>
  /\ pc = "main"
  /\ error = NoError
  /\ svcIdx = 0
  /\ attempts = 0
  /\ i = 0
  /\ rollbackList = <<>>
  /\ deploymentsDir = {}
  /\ exitCode = 0

\* startMonitoring() up to `await this.runHealthChecks()`
StartMonitoring ==
  /\ mpc = "constructed"
  /\ isMonitoring' = TRUE
  /\ rounds' = Append(rounds, NewRound("initial"))
  /\ hist' = [hist EXCEPT !.roundsStarted = @ + 1]
  /\ mpc' = "initialRound"
  /\ UNCHANGED <<orchestratorVars, services, interval, notifications, alertsDir,
                 metrics, alerts, now,
                 monitoringInterval, dashboardInterval>>

\* mutant: the round resolves with its first settled check
AllSettled_Any(checks) == \E x \in DOMAIN checks : checks[x] = "done"

\* Promise.allSettled(checkPromises): every check has settled; a check
\* settles by returning, its try/catch blocks letting no exception out
AllSettled(checks) == \A x \in DOMAIN checks : checks[x] = "done"

\* A check of round r reaches `newpc` with store M. When that was the last
\* check of the round, Promise.allSettled resolves and the awaiting code
\* resumes before any other callback runs: startMonitoring installs the
\* polling timer, renders the dashboard and installs the dashboard timer;
\* the timer callback runs generateReport() and checkAlerts(); a direct call
\* of runHealthChecks() returns.
Settled(r, n, M, newpc, performed, failed, subFailed) ==
  LET checks == [rounds[r].checks EXCEPT ![n] = newpc]
      done == AllSettled(checks)
      kind == rounds[r].kind
      M2 == IF done /\ kind = "timer" THEN CheckAlerts(M, services, now) ELSE M
      resumed == done /\ kind = "initial"
  IN /\ metrics' = IF resumed THEN DisplayDashboard(M2.metrics) ELSE M2.metrics
     /\ alerts' = M2.alerts
     /\ rounds' = IF done THEN RemoveAt(rounds, r)
                  ELSE [rounds EXCEPT ![r].checks = checks]
     /\ monitoringInterval' = IF resumed THEN "active" ELSE monitoringInterval
     /\ dashboardInterval' = IF resumed THEN "active" ELSE dashboardInterval
     /\ mpc' = IF resumed THEN "started" ELSE mpc
     /\ alertsDir' = M2.dir
     /\ hist' = [hist EXCEPT !.created = M2.created,
                             !.sent = M2.sent,
                             !.evaluated = IF done /\ kind = "timer" THEN @ + 1 ELSE @,
                             !.performed[n] = @ + performed,
                             !.failed[n] = @ + failed,
                             !.subFailed[n] = @ + subFailed,
                             !.renders = IF resumed THEN @ + 1 ELSE @]
     /\ UNCHANGED <<orchestratorVars, services, interval, notifications, now, isMonitoring>>

\* the fetch of a check settles
FetchSettles ==
  \E r \in 1..Len(rounds), n \in ServiceNames(services),
     outcome \in FetchOutcomes, rt \in ResponseTimesOf(interval) :
    /\ rounds[r].checks[n] = "fetch"
    /\ LET svc == ServiceNamed(services, n)
       IN Settled(r, n, AfterFetch(CurrentStore, svc, outcome, rt, now),
                  IF outcome = "ok" /\ svc.type = "api" THEN "api" ELSE "done",
                  1, IF outcome = "ok" THEN 0 ELSE 1, 0)

\* the /health request of checkApiHealth settles and the check ends
ApiSettles ==
  \E r \in 1..Len(rounds), n \in ServiceNames(services), ans \in ApiAnswers :
    /\ rounds[r].checks[n] = "api"
    /\ Settled(r, n, Finish(CheckApiHealth(CurrentStore, n, ans, now), n, now),
               "done", 0, 0, IF ans.ok THEN 0 ELSE 1)

\* how many rounds a run is followed for; the rounds of a short interval are
\* followed further, since they can start before the round before them ended
RoundLimit == IF interval < MonitoringInterval THEN MaxFastRounds ELSE MaxRounds

\* the polling timer fires: the callback calls runHealthChecks()
TimerFires ==
  /\ monitoringInterval = "active"
  /\ hist.roundsStarted < RoundLimit
  /\ now' = now + interval
  /\ rounds' = Append(rounds, NewRound("timer"))
  /\ hist' = [hist EXCEPT !.roundsStarted = @ + 1]
  /\ UNCHANGED <<orchestratorVars, services, interval, notifications, alertsDir,
                 metrics, alerts, isMonitoring,
                 monitoringInterval, dashboardInterval, mpc>>

\* the dashboard timer fires: displayDashboard()
DashboardFires ==
  /\ dashboardInterval = "active"
  /\ hist.renders <= MaxRenders
  /\ metrics' = DisplayDashboard(metrics)
  /\ hist' = [hist EXCEPT !.renders = @ + 1]
  /\ UNCHANGED <<orchestratorVars, services, interval, notifications, alertsDir,
                 alerts, now, isMonitoring, monitoringInterval, dashboardInterval,
                 mpc, rounds>>

\* clearInterval behind `if (this.<timer>)`
Cleared(timer) == IF timer = "unset" THEN "unset" ELSE "cleared"

\* stopMonitoring(), called once after startMonitoring() was called
StopMonitoring ==
  /\ mpc # "constructed"
  /\ ~hist.stopped
  /\ isMonitoring' = FALSE
  /\ monitoringInterval' = Cleared(monitoringInterval)
  /\ dashboardInterval' = Cleared(dashboardInterval)
  /\ hist' = [hist EXCEPT !.stopped = TRUE]
  /\ UNCHANGED <<orchestratorVars, services, interval, notifications, alertsDir,
                 metrics, alerts, now, mpc, rounds>>

MonInit ==
  /\ OrchestratorIdle
  /\ MonitorConstructed(DefaultServices)

MonNext ==
  \/ StartMonitoring
  \/ FetchSettles
  \/ ApiSettles
  \/ TimerFires
  \/ DashboardFires
  \/ StopMonitoring

MonSpec == MonInit /\ [][MonNext]_vars

\* ------------------------------------------------------------------ monitor: long runs
\* The object is exported, so its methods are also called one by one. A long
\* run is replayed from the constructor: the checks of a history are made in
\* sequence, FastInterval apart, with the operators the steps above use.
FastInterval == 1000

\* bounds of the calls made after a replayed history
MaxCalls == 1
MaxTicks == 1

Segment(outcome, count) == [outcome |-> outcome, count |-> count]

\* one failed check in sixteen, six times over, then four good ones
SixInHundred ==
  <<Segment("status", 1), Segment("ok", 15), Segment("status", 1), Segment("ok", 15),
    Segment("status", 1), Segment("ok", 15), Segment("status", 1), Segment("ok", 15),
    Segment("status", 1), Segment("ok", 15), Segment("status", 1), Segment("ok", 15),
    Segment("ok", 4)>>

Histories ==
  { <<>>,
    <<Segment("error", 2)>>,
    <<Segment("ok", 99)>>,
    <<Segment("ok", 100)>>,
    <<Segment("status", 51)>>,
    <<Segment("status", 52)>>,
    <<Segment("status", 53), Segment("ok", 1), Segment("status", 2)>>,
    <<Segment("status", 3), Segment("ok", 1), Segment("status", 2)>>,
    SixInHundred }

\* Date.now() - startTime of the k-th replayed check
SampleAt(k) == 100 + k

\* the replay state: store, clock, number of checks made and failed
Replayed(M, t, performed, failed) ==
  [M |-> M, t |-> t, performed |-> performed, failed |-> failed]

ReplayCheck(S, svc, outcome) ==
  LET t == S.t + FastInterval
  IN Replayed(AfterFetch(S.M, svc, outcome, SampleAt(S.performed + 1), t), t,
              S.performed + 1, S.failed + (IF outcome = "ok" THEN 0 ELSE 1))

RECURSIVE ReplaySegment(_, _, _, _)
ReplaySegment(S, svc, outcome, count) ==
  IF count = 0 \/ S.performed < 0 THEN S
  ELSE ReplaySegment(ReplayCheck(S, svc, outcome), svc, outcome, count - 1)

RECURSIVE ReplayFrom(_, _, _, _)
ReplayFrom(S, svc, h, k) ==
  IF k > Len(h) THEN S
  ELSE ReplayFrom(ReplaySegment(S, svc, h[k].outcome, h[k].count), svc, h, k + 1)

Replay(svcs, h) ==
  ReplayFrom(Replayed(Store([n \in ServiceNames(svcs) |-> InitialMetrics], <<>>, <<>>,
                            DefaultNotifications, AlertsDir(TRUE), NothingSent),
                      0, 0, 0),
             svcs[1], h, 1)

LongInit ==
  /\ OrchestratorIdle
  /\ \E h \in Histories :
       LET S == Replay(WebOnlyServices, h)
       IN /\ services = WebOnlyServices
          /\ interval = MonitoringInterval
          /\ notifications = S.M.notifications
          /\ alertsDir = S.M.dir
          /\ metrics = S.M.metrics
          /\ alerts = S.M.alerts
          /\ now = S.t
          /\ hist = [NoHistory(WebOnlyServices) EXCEPT
                       !.performed = [n \in ServiceNames(WebOnlyServices) |-> S.performed],
                       !.failed = [n \in ServiceNames(WebOnlyServices) |-> S.failed],
                       !.created = S.M.created,
                       !.sent = S.M.sent]
  /\ isMonitoring = FALSE
  /\ monitoringInterval = "unset"
  /\ dashboardInterval = "unset"
  /\ mpc = "constructed"
  /\ rounds = <<>>

\* await monitor.runHealthChecks()
CallRunHealthChecks ==
  /\ rounds = <<>>
  /\ hist.roundsStarted < MaxCalls
  /\ rounds' = <<NewRound("call")>>
  /\ hist' = [hist EXCEPT !.roundsStarted = @ + 1]
  /\ UNCHANGED <<orchestratorVars, services, interval, notifications, alertsDir,
                 metrics, alerts, now, isMonitoring,
                 monitoringInterval, dashboardInterval, mpc>>

\* monitor.checkAlerts()
CallCheckAlerts ==
  /\ rounds = <<>>
  /\ LET M == CheckAlerts(CurrentStore, services, now)
     IN /\ metrics' = M.metrics
        /\ alerts' = M.alerts
        /\ alertsDir' = M.dir
        /\ hist' = [hist EXCEPT !.created = M.created, !.sent = M.sent]
  /\ UNCHANGED <<orchestratorVars, services, interval, notifications, now, isMonitoring,
                 monitoringInterval, dashboardInterval, mpc, rounds>>

\* time passes between two calls
TimeSteps == {FastInterval, DedupWindow}

TimePasses ==
  \E dt \in TimeSteps :
    /\ rounds = <<>>
    /\ hist.ticks < MaxTicks
    /\ now' = now + dt
    /\ hist' = [hist EXCEPT !.ticks = @ + 1]
    /\ UNCHANGED <<orchestratorVars, services, interval, notifications, alertsDir,
                 metrics, alerts, isMonitoring,
                   monitoringInterval, dashboardInterval, mpc, rounds>>

LongNext ==
  \/ CallRunHealthChecks
  \/ FetchSettles
  \/ CallCheckAlerts
  \/ TimePasses

LongRunSpec == LongInit /\ [][LongNext]_vars

\* ------------------------------------------------------------------ monitor: short interval
\* new ProductionMonitor({services: [one web service], monitoring: {interval:
\* 1000, alertThresholds: the default ones}}) and startMonitoring(): the timer
\* fires every second, a fetch may take up to its 10 seconds
ShortInit ==
  /\ OrchestratorIdle
  /\ MonitorConfigured(WebOnlyServices, FastInterval)
  /\ notifications \in {DefaultNotifications, AllNotifications}
  /\ \E writable \in BOOLEAN : alertsDir = AlertsDir(writable)

ShortNext ==
  \/ StartMonitoring
  \/ FetchSettles
  \/ TimerFires
  \/ DashboardFires
  \/ StopMonitoring

ShortIntervalSpec == ShortInit /\ [][ShortNext]_vars

\* ============================================================ properties
\* what this.logs tells about the run so far
Entries(m) == SelectSeq(logs, LAMBDA e : e.msg = m)
Logged(m) == Entries(m) # <<>>
Numbers(m) == [k \in 1..Len(Entries(m)) |-> Entries(m)[k].n]
Args(m) == [k \in 1..Len(Entries(m)) |-> Entries(m)[k].arg]
Count(n) == [k \in 1..n |-> k]

StartedSteps == Numbers("Step")
CompletedSteps == Numbers("Step completed successfully")
FailedSteps == Numbers("Step failed")
RollbackInvoked == Logged("Initiating rollback procedure")
RollbackFinished == Logged("Rollback completed successfully")
RolledBack == Args("Service rolled back")
DeployRan == Logged("Starting deployment")
\* deploy() has left its inner try/catch with an error
FailureHandled == pc \in {"deploymentFailure", "main_rejected"} \/ (pc = "exited" /\ DeployRan)

\* ------------------------------------------------------------------- C1
\* C1: rollback() is invoked if and only if a step fails and the 1-based
\* index of the failing step is 3 or more; a failure of step 1 or 2, and a
\* run without a failing step, never invoke rollback.
C1_RollbackIffLateFailure ==
  LET failed == FailedSteps
      lateFailure == \E k \in 1..Len(failed) : failed[k] >= 3
  IN  /\ RollbackInvoked => lateFailure
      /\ (FailureHandled /\ lateFailure) => RollbackInvoked
      /\ ~lateFailure => pc \notin {"rollback", "rollback_loop"}

C1_Witness ==
  /\ pc = "exited"
  /\ FailedSteps = <<3>>
  /\ RollbackInvoked

\* ------------------------------------------------------------------- C2
\* position of a service in the recording order of deploymentState.services
Recorded(name) ==
  CHOOSE k \in 1..Len(deploymentState.services) : deploymentState.services[k].name = name
Decreasing(names) ==
  \A a, b \in 1..Len(names) : a < b => Recorded(names[a]) > Recorded(names[b])
DeployedNames ==
  {deploymentState.services[k].name :
     k \in {j \in 1..Len(deploymentState.services) :
              deploymentState.services[j].status = "deployed"}}
Range(q) == {q[k] : k \in 1..Len(q)}

\* C2: rollback() visits the recorded services in exactly the reverse of the
\* order in which they were recorded, and calls rollbackService for a service
\* if and only if its recorded status is 'deployed'.
C2_RollbackReverseDeployedOnly ==
  LET rolledBack == RolledBack
  IN  /\ Decreasing(rolledBack)
      /\ Range(rolledBack) \subseteq DeployedNames
      /\ pc = "rollback_loop" =>
           /\ Decreasing(rollbackList)
           \* still to visit: exactly the services recorded first
           /\ Range(rollbackList) =
                {deploymentState.services[k].name : k \in 1..Len(rollbackList)}
           \* visited so far: rolled back exactly when deployed
           /\ Range(rolledBack) = DeployedNames \ Range(rollbackList)
      /\ RollbackFinished => Range(rolledBack) = DeployedNames
      /\ ~RollbackInvoked => rolledBack = <<>>

C2_Witness ==
  /\ RollbackFinished
  /\ Len(RolledBack) = 2
  /\ \E k \in 1..Len(deploymentState.services) : deploymentState.services[k].status = "failed"

\* ------------------------------------------------------------------- C3
\* the positions of the control flow inside each of the seven steps
StepPositions ==
  << {"validateEnvironment"},
     {"runSecurityAudit", "analyzeDependencies", "runPerformanceTests", "runDatabaseMigrations"},
     {"deployServices", "deployServices_loop"},
     {"runHealthChecks", "healthChecks_loop", "healthChecks_attempt"},
     {"runSmokeTests"},
     {"updateTrafficRouting"},
     {"clearCaches", "notifyMonitoring", "sendDeploymentNotifications", "createDeploymentRecord"} >>

\* C3: deploy() starts the seven steps in the fixed order; step k+1 starts
\* only after step k completed successfully, and once a step failed no later
\* step is started.
C3_StepsInOrder ==
  LET started == StartedSteps
      completed == CompletedSteps
      failed == FailedSteps
  IN  /\ started = Count(Len(started))
      /\ completed = Count(Len(completed))
      /\ Len(started) <= 7
      /\ Len(completed) <= Len(started)
      /\ Len(started) <= Len(completed) + 1
      /\ failed # <<>> =>
           /\ failed = <<Len(started)>>
           /\ Len(completed) = Len(started) - 1
      /\ \A k \in 1..7 :
           pc \in StepPositions[k] =>
             /\ Len(started) = k
             /\ Len(completed) = k - 1
             /\ failed = <<>>

C3_Witness ==
  /\ pc = "createDeploymentRecord"
  /\ CompletedSteps = Count(6)

\* ------------------------------------------------------------------- C4
RecordFiles == {r.file : r \in deploymentsDir}
RunTerminated == pc = "exited" /\ DeployRan

\* C4 as stated: every terminated run of deploy() has written exactly one
\* record, '<id>.json' iff all seven steps completed and '<id>-failed.json'
\* iff some step failed.
C4_ExactlyOneRecord ==
  RunTerminated =>
    /\ Cardinality(RecordFiles) = 1
    /\ "<id>.json" \in RecordFiles <=> Len(CompletedSteps) = 7
    /\ "<id>-failed.json" \in RecordFiles <=> FailedSteps # <<>>

\* C4 amended: no run ever holds both records; at termination '<id>.json'
\* exists iff all seven steps completed, and '<id>-failed.json' exists iff
\* some step failed and the write of the failure record did not itself throw.
C4_AtMostOneRecord ==
  /\ Cardinality(RecordFiles) <= 1
  /\ RunTerminated =>
       /\ "<id>.json" \in RecordFiles <=> Len(CompletedSteps) = 7
       /\ "<id>-failed.json" \in RecordFiles <=>
            (FailedSteps # <<>> /\
             ~(error.kind = "FsError" /\ error.subject = "<id>-failed.json"))

C4_Witness ==
  /\ RunTerminated
  /\ FailedSteps = <<7>>
  /\ RecordFiles = {"<id>-failed.json"}

\* ------------------------------------------------------------------- C5
\* C5: if steps 1 to 6 succeeded, the run ends as a success (no rollback,
\* no failure record, exit code 0) whatever happens inside step 7.
C5_PostDeploymentNeverAborts ==
  (pc = "exited" /\ Len(CompletedSteps) >= 6) =>
    /\ exitCode = 0
    /\ ~RollbackInvoked
    /\ "<id>-failed.json" \notin RecordFiles

\* ------------------------------------------------------------------- C6
HealthCheckedServices == Args("Health checking service")
FailedAttemptsOf(name) ==
  Len(SelectSeq(logs, LAMBDA e : e.msg = "Health check attempt failed" /\ e.arg = name))

\* C6: a service whose every health-check attempt fails causes, after
\* exactly maxAttempts attempts, an error naming the service and maxAttempts;
\* the pipeline aborts at step 4, rollback runs, and no later service is
\* health-checked.
C6_HealthCheckExhaustion ==
  /\ error.kind = "HealthCheckFailed" =>
       /\ config.deployment.hasRetries
       /\ error.n = config.deployment.healthCheckRetries
       /\ attempts = error.n
       /\ FailedAttemptsOf(error.subject) = error.n
       /\ error.subject \notin Range(Args("Health check passed"))
       /\ HealthCheckedServices # <<>>
       /\ HealthCheckedServices[Len(HealthCheckedServices)] = error.subject
       /\ Len(StartedSteps) = 4
       /\ pc # "step_catch" => FailedSteps = <<4>>
       /\ pc \in {"deploymentFailure", "main_rejected", "exited"} => RollbackFinished
  \* the loop goes on after a failed attempt only while attempts are left
  /\ (pc = "healthChecks_attempt" /\ attempts >= 1) =>
       attempts < config.deployment.healthCheckRetries

C6_Witness ==
  /\ pc = "exited"
  /\ error.kind = "HealthCheckFailed"
  /\ error.n = 2
  /\ Len(deploymentState.services) = 2
  /\ error.subject = deploymentState.services[1].name
  /\ HealthCheckedServices = <<error.subject>>
  /\ RollbackFinished

\* ------------------------------------------------------------------- C7
\* C7: the CLI exits 1 without constructing or running a pipeline when the
\* environment name is not 'staging' or 'production'; otherwise it exits 0
\* exactly when deploy() completes all steps and 1 exactly when deploy()
\* fails.  (An absent argument counts as 'staging', as main() resolves it.)
C7_ExitCodes ==
  pc = "exited" =>
    IF argv0 \notin {"<absent>", "staging", "production"}
    THEN exitCode = 1 /\ ~DeployRan /\ logs = <<>>
    ELSE /\ exitCode = 0 <=> Len(CompletedSteps) = 7
         /\ exitCode = 1 <=> Logged("Deployment failed")

\* ------------------------------------------------------------------- C8
Denylisted ==
  (backendDeps \cup frontendDeps) \cap {"left-pad", "event-stream"} # {}
NamesDenylistedPackage(e) ==
  /\ e.kind = "ProblematicPackageDetected"
  /\ e.subject \in (backendDeps \cup frontendDeps) \cap {"left-pad", "event-stream"}
\* step 2 neither passes nor gets past the dependency inspection, nothing is
\* deployed and nothing rolled back
AbortsInStepTwo ==
  /\ Len(StartedSteps) = 2
  /\ CompletedSteps = <<1>>
  /\ pc \notin {"runPerformanceTests", "runDatabaseMigrations", "step_ok"}
  /\ pc \notin {"step_catch"} \cup StepPositions[2] => FailedSteps = <<2>>
  /\ ~RollbackInvoked
  /\ deploymentState.services = <<>>

\* C8 as stated: with a denylisted package in the dependency set, step 2
\* fails with an error naming that package, in staging and in production,
\* with no rollback and no service deployed.
C8_DenylistAlwaysNamed ==
  (Denylisted /\ Len(StartedSteps) >= 2) =>
    /\ AbortsInStepTwo
    /\ pc = "step_catch" => NamesDenylistedPackage(error)

\* C8 amended: with a denylisted package in the dependency set, step 2
\* fails in staging and in production, with no rollback and no service
\* deployed; its error names that package whenever the dependency inspection
\* is reached, which is always in staging and in production unless the
\* security audit has already aborted the step.
C8_DenylistFatal ==
  (Denylisted /\ Len(StartedSteps) >= 2) =>
    /\ AbortsInStepTwo
    /\ pc = "step_catch" =>
         \/ NamesDenylistedPackage(error)
         \/ /\ environment = "production"
            /\ error.kind = "SecurityVulnerabilitiesFound"
            /\ ~Logged("Analyzing dependencies")
    /\ (pc = "step_catch" /\ Logged("Analyzing dependencies")) =>
         NamesDenylistedPackage(error)

C8_Witness ==
  /\ pc = "exited"
  /\ environment = "production"
  /\ FailedSteps = <<2>>
  /\ \E r \in deploymentsDir :
       r.error.kind = "ProblematicPackageDetected" /\ r.error.subject = "event-stream"

\* ------------------------------------------------------------------- C9
AuditFindings == Logged("Running security audit") /\ ~Logged("Security audit passed")

\* C9: a security-audit finding aborts the run in production (step 2
\* fails); in staging it only logs a warning, after which the remaining
\* pre-deployment checks run in order.
C9_AuditPolicy ==
  /\ (AuditFindings /\ environment = "production") =>
       /\ ~Logged("Analyzing dependencies")
       /\ pc \notin StepPositions[2]
       /\ pc = "step_catch" => error.kind = "SecurityVulnerabilitiesFound"
       /\ pc # "step_catch" => FailedSteps = <<2>>
       /\ Len(StartedSteps) = 2
  /\ (AuditFindings /\ environment = "staging") =>
       /\ Logged("Security audit found issues")
       /\ pc = "analyzeDependencies" \/ Logged("Analyzing dependencies")
       /\ error.kind # "SecurityVulnerabilitiesFound"
  /\ Logged("Running performance tests") => Logged("Dependency analysis completed")
  /\ Logged("Checking database migrations") => Logged("Performance tests passed")
  /\ Len(CompletedSteps) >= 2 => Logged("Database migrations completed")

C9_Witness ==
  /\ environment = "staging"
  /\ Logged("Security audit found issues")
  /\ CompletedSteps = <<1, 2>>

\* ------------------------------------------------------------------ C10
\* C10: currentStep is at most totalSteps in every state of a run, and
\* totalSteps is 7 once the pipeline has started.
C10_StepCounters ==
  /\ deploymentState.currentStep <= deploymentState.totalSteps
  /\ deploymentState.phase = "started" => deploymentState.totalSteps = 7
  /\ Len(StartedSteps) >= 1 => deploymentState.totalSteps = 7

C10_Witness ==
  /\ pc = "exited"
  /\ deploymentState.currentStep = 7
  /\ deploymentState.totalSteps = 7

\* ------------------------------------------------------------------ C11
\* stage names of the seven steps, as the specification spells them
StageNames ==
  <<"validate-environment", "pre-deployment-checks", "deploy-services", "health-checks",
    "smoke-tests", "traffic-routing-update", "post-deployment-tasks">>

\* C11: while step k of the pipeline is executing, deploymentState.phase
\* holds the name of that pipeline stage (and stays at the stage that failed).
C11_PhaseNamesStage ==
  \A k \in 1..7 :
    (pc \in StepPositions[k] \/ (FailedSteps = <<k>> /\ pc = "exited")) =>
      deploymentState.phase \in {StageNames[k], StepName[k]}

\* ------------------------------------------------------------------ C12
\* C12: a configuration loaded from a file that omits healthCheckRetries
\* carries the documented default for it, so the health-check loop of a
\* service never starts without attempts left because the field is missing.
C12_DefaultsForOmittedFields ==
  /\ (DeployRan /\ config.deployment.present) => config.deployment.hasRetries
  /\ (pc = "healthChecks_attempt" /\ attempts = 0 /\ config.deployment.present) =>
       config.deployment.hasRetries

\* ============================================================ monitor properties
\* a check of service n is between its two requests
InApiCheck(n) == \E r \in 1..Len(rounds) : rounds[r].checks[n] = "api"

\* ------------------------------------------------------------------ C13
\* C13: after n completed health checks of a service of which e failed
\* (non-2xx response, network error or timeout), the availability of that
\* service is (n - e) / n, and exactly 1.0 when n is 0.
C13_AvailabilityIsSuccessShare ==
  \A n \in DOMAIN metrics :
    ~InApiCheck(n) =>
      LET a == metrics[n].availability
          performed == hist.performed[n]
          failed == hist.failed[n]
      IN IF performed = 0
         THEN a = [num |-> 1, den |-> 1]
         ELSE a.num * performed = (performed - failed) * a.den

\* ------------------------------------------------------------------ C14
\* C14: in every reachable state each service's availability lies in [0, 1].
C14_AvailabilityInUnitInterval ==
  \A n \in DOMAIN metrics :
    LET a == metrics[n].availability
    IN a.den > 0 /\ 0 <= a.num /\ a.num <= a.den

\* ------------------------------------------------------------------ C15
\* C15: createAlert never adds a second alert with the same (service,
\* message) as one created less than 5 minutes earlier, whatever was created
\* in between: any two alerts ever added with the same service and message
\* lie at least 300000 ms apart.
C15_NoDuplicateWithinWindow ==
  LET created == hist.created
  IN \A j, k \in 1..Len(created) :
       (j < k /\ created[j].service = created[k].service
              /\ created[j].message = created[k].message) =>
         created[k].timestamp - created[j].timestamp >= 300000

\* ------------------------------------------------------------------ C16
\* C16: calculateOverallHealth returns 'critical' whenever fewer than half of
\* the services are healthy, whatever the error rate; otherwise 'degraded'
\* when not all are healthy or the overall error rate exceeds 5%; otherwise
\* 'healthy'.
C16_OverallHealthTiers ==
  LET size == Cardinality(DOMAIN metrics)
      online == ServicesOnline(metrics)
      rate == OverallErrorRate(metrics)
      expected == IF 2 * online < size THEN "critical"
                  ELSE IF online < size \/ rate.num * 100 > 5 * rate.den THEN "degraded"
                  ELSE "healthy"
  IN CalculateOverallHealth(metrics) = expected

\* ------------------------------------------------------------------ C17
\* C17: once stopMonitoring() has returned, no polling round and no dashboard
\* render is started any more.
C17_NothingStartsAfterStop ==
  [][hist.stopped =>
       /\ hist'.roundsStarted = hist.roundsStarted
       /\ hist'.renders = hist.renders]_vars

\* ------------------------------------------------------------------ C18
\* a service with 100 requests and 6 errors, no alert yet, nothing in flight
HundredAndSix(n) ==
  /\ metrics[n].totalRequests = 100
  /\ metrics[n].errorCount = 6
  /\ alerts = <<>>
  /\ rounds = <<>>

\* a step of checkAlerts(): no check in flight before or after, clock unmoved
EvaluationStep == rounds = <<>> /\ rounds' = <<>> /\ now' = now

Critical(al) == SelectSeq(al, LAMBDA a : a.severity = "critical")

C19_BufferBounded ==
  /\ [](\A n \in DOMAIN metrics : Len(metrics[n].responseTime) <= 100)
  /\ [][\A n \in DOMAIN metrics :
          LET old == metrics[n].responseTime
              new == metrics'[n].responseTime
          IN metrics'[n].totalRequests = metrics[n].totalRequests + 1 =>
               IF Len(old) = 100
               THEN Len(new) = 100 /\ SubSeq(new, 1, 99) = Tail(old)
               ELSE Len(new) = Len(old) + 1 /\ SubSeq(new, 1, Len(old)) = old]_vars

C19_Witness ==
  \E n \in DOMAIN metrics :
    /\ Len(metrics[n].responseTime) = 100
    /\ metrics[n].totalRequests = 101
    /\ hist.roundsStarted = 1

\* ------------------------------------------------------------------ C20
\* C20: the alert list never holds more than 50 alerts, and alerts added to
\* a list of 50 evict the oldest ones while the remaining alerts keep their
\* creation order: the list is always the last 50 of what it was followed by
\* what was added.
C20_AlertListBounded ==
  /\ [](Len(alerts) <= 50)
  /\ [][LET added == SubSeq(hist'.created, Len(hist.created) + 1, Len(hist'.created))
            all == alerts \o added
        IN alerts' = IF Len(all) > 50 THEN SubSeq(all, Len(all) - 49, Len(all)) ELSE all]_vars

C20_Witness ==
  /\ Len(alerts) = 50
  /\ Len(hist.created) > 50
  /\ hist.roundsStarted = 1
  /\ alerts[50].timestamp = now

\* ------------------------------------------------------------------ C21
\* C21: whatever the number of consecutive failed checks before it, a
\* successful check of a service sets its consecutiveFailures to 0 and its
\* status to healthy, and each failed check adds exactly 1 to
\* consecutiveFailures.
C21_FailureCountResets ==
  [][\A n \in DOMAIN metrics :
       hist'.performed[n] = hist.performed[n] + 1 =>
         IF hist'.failed[n] = hist.failed[n]
         THEN /\ metrics'[n].consecutiveFailures = 0
              /\ metrics'[n].status = "healthy"
         ELSE metrics'[n].consecutiveFailures = metrics[n].consecutiveFailures + 1]_vars

\* a success after 51 failures in a row
C21_Witness ==
  \E n \in DOMAIN metrics :
    /\ metrics[n].errorCount = 51
    /\ metrics[n].totalRequests = 52
    /\ metrics[n].consecutiveFailures = 0
    /\ metrics[n].status = "healthy"
    /\ hist.roundsStarted = 1

\* ------------------------------------------------------------------ C22
\* C22: a failure of the /health sub-check (non-2xx, bad JSON, timeout) sets
\* deploymentHealth to unhealthy and touches neither the status the outer
\* check has set nor errorCount nor consecutiveFailures; the check is not
\* counted as failed.
C22_SubCheckFailureFrame ==
  [][\A n \in DOMAIN metrics :
       hist'.subFailed[n] = hist.subFailed[n] + 1 =>
         /\ metrics'[n].deploymentHealth = "unhealthy"
         /\ metrics'[n].status = metrics[n].status
         /\ metrics'[n].errorCount = metrics[n].errorCount
         /\ metrics'[n].consecutiveFailures = metrics[n].consecutiveFailures
         /\ metrics'[n].totalRequests = metrics[n].totalRequests
         /\ hist'.failed[n] = hist.failed[n]]_vars

\* the first check of the backend answered 2xx and its sub-check failed
C22_Witness ==
  /\ "backend" \in DOMAIN metrics
  /\ hist.subFailed["backend"] = 1
  /\ hist.performed["backend"] = 1
  /\ ~InApiCheck("backend")
  /\ metrics["backend"].deploymentHealth = "unhealthy"
  /\ metrics["backend"].status = "healthy"
  /\ metrics["backend"].errorCount = 0
  /\ metrics["backend"].consecutiveFailures = 0
  /\ metrics["backend"].availability = [num |-> 1, den |-> 1]

\* ------------------------------------------------------------------ C23
Unsettled(round) == {x \in DOMAIN round.checks : round.checks[x] # "done"}

\* C23: during steady-state polling no outcome of a check makes a round
\* reject or stops the monitor: a started, unstopped monitor keeps both
\* timers; a round ends exactly when the last of its checks settles; a
\* failed check changes metrics and alerts only.
C23_RoundsAlwaysComplete ==
  /\ []((mpc = "started" /\ ~hist.stopped) =>
          (monitoringInterval = "active" /\ dashboardInterval = "active"))
  /\ [](\A r \in 1..Len(rounds) : Unsettled(rounds[r]) # {})
  /\ [][Len(rounds') < Len(rounds) =>
          \E r \in 1..Len(rounds) :
            /\ rounds' = SubSeq(rounds, 1, r - 1) \o SubSeq(rounds, r + 1, Len(rounds))
            /\ Cardinality(Unsettled(rounds[r])) = 1]_vars
  /\ [][(mpc = "started" /\ hist'.failed # hist.failed) =>
          UNCHANGED <<isMonitoring, monitoringInterval, dashboardInterval, mpc, services>>]_vars

\* a polling round of a running monitor has ended with every check failed
C23_Witness ==
  /\ mpc = "started"
  /\ ~hist.stopped
  /\ hist.roundsStarted = 2
  /\ rounds = <<>>
  /\ \A n \in DOMAIN metrics : hist.failed[n] = 2
  /\ monitoringInterval = "active"

\* ============================================== deploy-services properties
\* the entry of deploymentState.services at position k
ServiceEntry(k) == deploymentState.services[k]
ServiceEntries == 1..Len(deploymentState.services)
\* the warning deployBackendToProduction / deployFrontendToProduction logs
\* when its publish command fails
PublishWarning(name) ==
  IF name = "backend" THEN "Railway deployment failed" ELSE "Netlify deployment failed"

\* ------------------------------------------------------------------ C24
\* C24: a service is recorded with status 'deployed' only if its install,
\* its environment-gated tests and its publish step all succeeded; a failed
\* production publish command leaves the service recorded as 'failed'.
C24_DeployedOnlyIfPublished ==
  \A k \in ServiceEntries :
    ServiceEntry(k).status = "deployed" => ~Logged(PublishWarning(ServiceEntry(k).name))

\* ------------------------------------------------------------------ C25
\* the enabled services of the configuration, in declaration order
EnabledNames ==
  LET enabled == SelectSeq(config.services, LAMBDA svc : svc.enabled)
  IN  [k \in 1..Len(enabled) |-> enabled[k].name]
\* the services the for-of loop of deployServices has finished with
Attempted == Args("Deploying service")
DisabledNames ==
  {config.services[k].name : k \in {j \in 1..Len(config.services) : ~config.services[j].enabled}}

\* C25: at every point of a run deploymentState.services has an entry for
\* exactly the enabled services whose deployment has been attempted so far, in
\* configuration declaration order; a disabled service never gets an entry,
\* nothing declared after the first failing service gets one, so at most one
\* entry has status 'failed' and it is the last one.
C25_EntriesArePrefixOfEnabled ==
  LET keys == ServiceKeys(deploymentState)
  IN  /\ keys = Attempted
      /\ config.hasServices =>
           /\ Len(keys) <= Len(EnabledNames)
           /\ keys = SubSeq(EnabledNames, 1, Len(keys))
           /\ \A k \in ServiceEntries : keys[k] \notin DisabledNames
      /\ \A k \in ServiceEntries :
           /\ ServiceEntry(k).status \in {"deployed", "failed"}
           /\ ServiceEntry(k).status = "failed" => k = Len(keys)

\* three enabled services, the second one failed after the first one was
\* deployed, and the run has ended without an entry for the third
C25_Witness ==
  /\ pc = "exited"
  /\ Len(deploymentState.services) = 2
  /\ ServiceEntry(1).status = "deployed"
  /\ ServiceEntry(2).status = "failed"
  /\ Len(EnabledNames) > 2

\* ------------------------------------------------------------------ C26
\* C26: if the health-checks phase completes successfully, every service
\* recorded in the deploy phase has had at least one health-check attempt
\* that passed, whatever healthCheckRetries is (0 and missing included).
C26_PassedMeansEveryServicePassed ==
  Logged("All health checks passed") =>
    \A k \in ServiceEntries :
      \E j \in 1..Len(Entries("Health check passed")) :
        Entries("Health check passed")[j].arg = ServiceEntry(k).name

\* ------------------------------------------------------------------ C27
\* the health-check attempts logged so far with message m for service name
AttemptsLogged(m, name) ==
  SelectSeq(logs, LAMBDA e : e.msg = m /\ e.arg = name)
AttemptDetails(m, name) ==
  [k \in 1..Len(AttemptsLogged(m, name)) |-> AttemptsLogged(m, name)[k].detail]
CheckedNames == Range(HealthCheckedServices)

\* C27: a health-check attempt for the backend fails when the response is
\* 2xx but the body's status field is not 'healthy', and such an attempt uses
\* up one of the maxAttempts attempts exactly like a non-2xx response; for any
\* other service a 2xx response alone passes.
C27_BackendBodyDecides ==
  /\ \A name \in CheckedNames :
       LET passed == AttemptDetails("Health check passed", name)
           failed == AttemptsLogged("Health check attempt failed", name)
       IN  /\ Len(passed) <= 1
           \* what passes and what fails
           /\ \A k \in 1..Len(passed) :
                passed[k] = IF name = "backend" THEN "2xx healthy" ELSE "2xx"
           /\ \A k \in 1..Len(failed) :
                failed[k].detail \in
                  IF name = "backend" THEN {"2xx unhealthy body", "non-2xx"} ELSE {"non-2xx"}
           \* every failed attempt, whatever its cause, is counted once
           /\ \A k \in 1..Len(failed) : failed[k].n = k
           /\ Len(failed) <= config.deployment.healthCheckRetries
           /\ (Len(failed) = config.deployment.healthCheckRetries /\ Len(failed) > 0) =>
                (pc = "step_catch" => error = Err("HealthCheckFailed", name, Len(failed), ""))
                /\ pc \notin {"healthChecks_attempt", "healthChecks_loop", "step_ok"}
  /\ pc = "healthChecks_attempt" =>
       attempts = FailedAttemptsOf(ServiceKeys(deploymentState)[svcIdx])

\* the frontend passed on a 2xx answer; the backend then answered non-2xx
\* and 2xx with an unhealthy body, which used up both of its two attempts
C27_Witness ==
  /\ pc = "exited"
  /\ AttemptDetails("Health check passed", "frontend") = <<"2xx">>
  /\ AttemptDetails("Health check attempt failed", "backend") =
       <<"non-2xx", "2xx unhealthy body">>
  /\ error = Err("HealthCheckFailed", "backend", 2, "")

\* ------------------------------------------------------------------ C28
\* the command answers in which only the tests of the service fail
TestsFailOnly ==
  {in \in DeployInputs :
     in.install = "ok" /\ in.build = "ok" /\ in.tests = "fail" /\ in.publish = "ok"}
Warned(entries) == \E k \in 1..Len(entries) : entries[k].level = "warn"

\* C28: for each enabled service deployed in deploy-services, a failure of
\* the service's tests aborts the phase when the environment is production,
\* and only logs a warning and goes on to the publish step when it is staging.
C28_TestsGateEveryService ==
  (/\ pc = "deployServices_loop"
   /\ svcIdx <= Len(config.services)
   /\ config.services[svcIdx].enabled
   /\ config.services[svcIdx].name \in {"backend", "frontend"}) =>
     \A in \in TestsFailOnly :
       LET r == DeployService(config.services[svcIdx].name, environment, in)
       IN  IF environment = "production"
           THEN r.thrown # "none"
           ELSE r.thrown = "none" /\ Warned(r.logs)

\* ------------------------------------------------------------------ C30
\* the failure records persisted so far, and what a record's log snapshot
\* tells about the run up to the write
FailureRecords == {rec \in deploymentsDir : rec.status = "failed"}
InRecord(rec, m) == \E k \in 1..Len(rec.logs) : rec.logs[k].msg = m
LateFailureIn(rec) ==
  \E k \in 1..Len(rec.logs) : rec.logs[k].msg = "Step failed" /\ rec.logs[k].n >= 3
RolledBackIn(rec) ==
  LET done == SelectSeq(rec.logs, LAMBDA e : e.msg = "Service rolled back")
  IN  {done[k].arg : k \in 1..Len(done)}
DeployedIn(rec) ==
  {rec.services[k].name :
     k \in {j \in 1..Len(rec.services) : rec.services[j].status = "deployed"}}

\* C30: in a run whose failing phase has index 3 or more, the rollback
\* procedure has finished before the failure record is written; the failure
\* record is never persisted while a rollback is still pending or in progress.
C30_RecordAfterRollback ==
  /\ \A rec \in FailureRecords :
       LateFailureIn(rec) =>
         /\ InRecord(rec, "Initiating rollback procedure")
         /\ InRecord(rec, "Rollback completed successfully")
         /\ RolledBackIn(rec) = DeployedIn(rec)
  /\ FailureRecords # {} =>
       /\ pc \notin {"step_catch", "rollback", "rollback_loop", "deploymentFailure"}
       /\ rollbackList = <<>>
  \* on the way to the write the rollback is over as well
  /\ (pc = "deploymentFailure" /\ \E k \in 1..Len(FailedSteps) : FailedSteps[k] >= 3) =>
       /\ RollbackFinished
       /\ rollbackList = <<>>

\* step 4 failed, the deployed services were rolled back, and after that the
\* failure record was written
C30_Witness ==
  /\ pc = "exited"
  /\ FailedSteps = <<4>>
  /\ \E rec \in FailureRecords :
       /\ LateFailureIn(rec)
       /\ RolledBackIn(rec) = {"backend", "frontend"}
       /\ InRecord(rec, "Rollback completed successfully")

\* ------------------------------------------------------------------ C31
IsPrefix(a, b) == Len(a) <= Len(b) /\ a = SubSeq(b, 1, Len(a))

\* C31: the run's log is append-only (no entry is ever removed, reordered
\* or modified), and the failure record written at the end of a failed run
\* contains, in order, every log entry appended before the record was
\* written, including the entry for the failing phase.
C31_LogAppendOnly ==
  /\ [][IsPrefix(logs, logs')]_vars
  /\ [](\A rec \in FailureRecords :
          /\ IsPrefix(rec.logs, logs)
          \* nothing but the note about the write itself came after the snapshot
          /\ Len(logs) = Len(rec.logs) + 1
          /\ logs[Len(logs)].msg = "Failure record saved"
          /\ InRecord(rec, "Step failed")
          /\ InRecord(rec, "Deployment failed"))
  /\ [][(deploymentsDir' # deploymentsDir /\ pc = "deploymentFailure") =>
          \E rec \in deploymentsDir' : IsPrefix(logs, rec.logs)]_vars

\* a failed run has ended with its record, whose snapshot holds the whole
\* log up to the write, the failure of step 2 included
C31_Witness ==
  /\ pc = "exited"
  /\ FailedSteps = <<2>>
  /\ \E rec \in FailureRecords :
       /\ Len(rec.logs) >= 6
       /\ rec.logs = SubSeq(logs, 1, Len(logs) - 1)

\* ------------------------------------------------------------------ C32
\* C32: if the environment config file exists but cannot be read or parsed,
\* constructing the orchestrator does not fail (it warns and uses the default
\* configuration): with a valid environment argument the constructor always
\* returns and deploy() is started.
C32_ConstructorNeverFails ==
  (pc # "main" /\ ResolveEnvironment(argv0) \in validEnvironments) =>
    /\ error # Err("TypeError", "logs", 0, "")
    /\ pc = "exited" => DeployRan

\* ================================================ monitor properties, continued
\* ------------------------------------------------------------------ C33
\* the step ends the fetch of a check of service n: with a success, at all
CheckSucceeds(n) ==
  hist'.performed[n] = hist.performed[n] + 1 /\ hist'.failed[n] = hist.failed[n]
CheckFails(n) == hist'.failed[n] = hist.failed[n] + 1

\* C33: a response-time sample is appended to a service's rolling buffer
\* exactly when a health check of that service succeeds with a 2xx response;
\* a check that fails (non-2xx response, network error or timeout) leaves the
\* buffer unchanged.
C33_SampleOnlyOnSuccess ==
  [][\A n \in ServiceNames(services) :
       /\ CheckSucceeds(n) =>
            metrics'[n].responseTime = PushSample(metrics[n].responseTime, 150)
       /\ CheckFails(n) => metrics'[n].responseTime = metrics[n].responseTime]_vars

\* ------------------------------------------------------------------ C34
\* the rounds in which a check of service n has not settled yet
InProgress(n) == {r \in 1..Len(rounds) : rounds[r].checks[n] # "done"}

\* C34: within one monitor run at most one health check of a given service
\* is in progress at any time, for every configured monitoring interval,
\* intervals shorter than the time a polling round can take included.
C34_OneCheckPerServiceAtATime ==
  \A n \in ServiceNames(services) : Cardinality(InProgress(n)) <= 1

\* ------------------------------------------------------------------ C35
\* the alert of the catch block for the count the step leaves in the metrics
FailureAlert(n) ==
  Alert("critical", n, "Service has failed consecutive health checks",
        metrics'[n].consecutiveFailures, now)
\* the step appends exactly alert a to what has been created
Creates(a) ==
  /\ hist'.created = Append(hist.created, a)
  /\ alerts' = PushAlert(alerts, a)
CreatesNothing == hist'.created = hist.created /\ alerts' = alerts

\* C35 as stated: a failed health check adds a consecutive-failure critical
\* alert naming the count exactly when the count after the increment is 3 or
\* more; every further consecutive failure passes the dedup check.
C35_AlertOnEveryFailureFromThree ==
  [][\A n \in ServiceNames(services) :
       CheckFails(n) =>
         /\ metrics'[n].consecutiveFailures = metrics[n].consecutiveFailures + 1
         /\ IF metrics'[n].consecutiveFailures >= 3
            THEN Creates(FailureAlert(n))
            ELSE CreatesNothing]_vars

\* C35 amended: createAlert is called exactly when the count after the
\* increment is 3 or more, and the alert is added unless an alert of that
\* service with the same count is in the list and less than 5 minutes old;
\* within one streak the count grows, so every further failure adds an alert.
C35_AlertUnlessSameCountRecently ==
  [][\A n \in ServiceNames(services) :
       CheckFails(n) =>
         /\ metrics'[n].consecutiveFailures = metrics[n].consecutiveFailures + 1
         /\ IF metrics'[n].consecutiveFailures >= 3
               /\ ~IsDuplicate(alerts, FailureAlert(n), now)
            THEN Creates(FailureAlert(n))
            ELSE CreatesNothing
         \* an alert that suppresses is older than the streak, whose checks
         \* are FastInterval apart: within a streak nothing is suppressed
         /\ \A k \in 1..Len(alerts) :
              (alerts[k].service = n /\ IsDuplicate(alerts, FailureAlert(n), now)
                 /\ alerts[k].message = FailureAlert(n).message) =>
                now - alerts[k].timestamp >=
                  FastInterval * metrics'[n].consecutiveFailures]_vars

\* a second streak has reached 3 within five minutes of the first: six
\* failed checks so far, and still the one alert of the first streak
C35_Witness ==
  /\ rounds = <<>>
  /\ hist.failed["frontend"] = 6
  /\ metrics["frontend"].consecutiveFailures = 3
  /\ Len(hist.created) = 1
  /\ hist.created[1].message.n = 3

\* ------------------------------------------------------------------ C36
\* the alerts createAlert did not suppress during the step, in order
NewAlerts == SubSeq(hist'.created, Len(hist.created) + 1, Len(hist'.created))

RECURSIVE PushAll(_, _)
PushAll(al, new) ==
  IF new = <<>> THEN al ELSE PushAll(PushAlert(al, Head(new)), Tail(new))

\* every new alert is in the list and was handed once to each configured
\* channel; without a new alert the list and the channels are as before
ListedAndDispatched ==
  /\ IsPrefix(hist.created, hist'.created)
  /\ alerts' = PushAll(alerts, NewAlerts)
  /\ hist'.sent.slack =
       hist.sent.slack \o (IF notifications.slack THEN NewAlerts ELSE <<>>)
  /\ hist'.sent.webhook =
       hist.sent.webhook \o (IF notifications.webhook THEN NewAlerts ELSE <<>>)

\* C36 as stated: every alert that createAlert does not suppress is appended
\* to the in-memory list, dispatched to the configured channels and appended
\* to the per-day persisted alert log exactly once; a suppressed alert changes
\* neither the list nor the persisted log and is not dispatched.
C36_EveryAlertPersisted ==
  [][/\ ListedAndDispatched
     /\ alertsDir'.daily = alertsDir.daily \o NewAlerts]_vars

\* C36 amended: the alert is appended to the persisted log exactly once
\* unless reading or writing the day's file fails; then the failure is only
\* printed, the log stays as it was, and the alert is listed and dispatched
\* all the same.
C36_PersistedUnlessWriteFails ==
  [][/\ ListedAndDispatched
     /\ alertsDir'.daily =
          alertsDir.daily \o (IF alertsDir.writable THEN NewAlerts ELSE <<>>)
     /\ alertsDir'.writable = alertsDir.writable]_vars

\* three rounds of non-2xx answers with both channels on and a writable
\* directory: the second round raised the error-rate and availability alerts,
\* the third repeated them within the window (suppressed) and added the
\* consecutive-failure alert; list, channels and file hold the same three
C36_Witness ==
  /\ rounds = <<>>
  /\ notifications = AllNotifications
  /\ alertsDir.writable
  /\ hist.failed["frontend"] = 3
  /\ metrics["frontend"].totalRequests = 3
  /\ Len(hist.created) = 3
  /\ alerts = hist.created
  /\ alertsDir.daily = hist.created
  /\ hist.sent = [slack |-> hist.created, webhook |-> hist.created]

\* ------------------------------------------------------------------ C37
\* the step ends a polling round: its last check settles
RoundEnds == Len(rounds') < Len(rounds)

\* C37: alert evaluation (checkAlerts) runs exactly once for every polling
\* round, the immediate round of startMonitoring included, and always after
\* all per-service checks of that round have settled and updated the metrics.
C37_EvaluationAfterEveryRound ==
  [][/\ RoundEnds => hist'.evaluated = hist.evaluated + 1
     /\ hist'.evaluated # hist.evaluated => RoundEnds]_vars

\* ------------------------------------------------------------------ C38
\* the step runs checkAlerts (as the last call of a timer callback)
Evaluates == hist'.evaluated = hist.evaluated + 1

\* the thresholds a service breaches with metrics m, as the alerts they call for
BreachesOf(n, m, t) ==
  LET avg == CalculateAverageResponseTime(m)
      rate == Ratio(m.errorCount, Max(m.totalRequests, 1))
  IN (IF avg > 2000
      THEN <<Alert("warning", n, "High response time", avg, t)>> ELSE <<>>)
     \o (IF rate.num * 100 > 5 * rate.den
         THEN <<Alert("critical", n, "High error rate", ToFixed2(rate), t)>> ELSE <<>>)
     \o (IF m.availability.num * 100 < 95 * m.availability.den
         THEN <<Alert("critical", n, "Low availability", ToFixed2(m.availability), t)>>
         ELSE <<>>)

RECURSIVE BreachesFrom(_, _, _)
BreachesFrom(mt, k, t) ==
  IF k > Len(services) THEN <<>>
  ELSE BreachesOf(services[k].name, mt[services[k].name], t) \o BreachesFrom(mt, k + 1, t)

\* the new alerts of the step that carry a message of checkAlerts
FromEvaluation ==
  SelectSeq(NewAlerts,
            LAMBDA a : a.message.text \in
                         {"High response time", "High error rate", "Low availability"})

\* the metrics after the step are those the settling check alone leaves
MetricsByCheckOnly ==
  \E r \in 1..Len(rounds), n \in ServiceNames(services),
     outcome \in FetchOutcomes, rt \in ResponseTimesOf(interval) :
    /\ rounds[r].checks[n] = "fetch"
    /\ metrics' = AfterFetch(CurrentStore, ServiceNamed(services, n), outcome, rt, now).metrics

\* C38 as stated: for every service one call of checkAlerts adds a warning
\* alert iff the average response time is above 2000 ms, a critical alert
\* iff errorCount/max(totalRequests,1) is above 5%, and a critical alert iff
\* availability is below 95%; no breach, no alert; no metric is changed.
C38_AlertIffBreach ==
  [][Evaluates =>
       /\ FromEvaluation = BreachesFrom(metrics', 1, now)
       /\ MetricsByCheckOnly]_vars

\* C38 amended: checkAlerts calls createAlert for exactly the breached
\* thresholds, and each of these alerts is added unless an alert of the same
\* service with the same message is in the list and less than 5 minutes old.
C38_AlertIffBreachUnlessDuplicate ==
  [][/\ Evaluates =>
          /\ FromEvaluation =
               SelectSeq(BreachesFrom(metrics', 1, now),
                         LAMBDA a : ~IsDuplicate(alerts, a, now))
          /\ MetricsByCheckOnly
     /\ ~Evaluates => FromEvaluation = <<>>]_vars

\* one evaluation so far, after a slow non-2xx and a slow 2xx answer: the
\* average of 2500 ms, the error rate of 50% and the availability of 50% each
\* gave their alert
C38_Witness ==
  /\ hist.evaluated = 1
  /\ rounds = <<>>
  /\ metrics["frontend"].responseTime = <<2500, 2500>>
  /\ metrics["frontend"].errorCount = 1
  /\ Len(hist.created) = 3
  /\ hist.created[1].severity = "warning"
  /\ hist.created[1].message = [text |-> "High response time", n |-> 2500]
  /\ hist.created[2].message = [text |-> "High error rate", n |-> 5000]
  /\ hist.created[3].message = [text |-> "Low availability", n |-> 5000]

\* ------------------------------------------------------------------ C39
\* C39: whenever no check of a service is in progress, its status is healthy
\* exactly when consecutiveFailures is 0 and at least one check has
\* completed, unhealthy exactly when consecutiveFailures is at least 1, and
\* consecutiveFailures never exceeds errorCount.
C39_StatusMatchesFailureCount ==
  \A n \in ServiceNames(services) :
    /\ metrics[n].consecutiveFailures <= metrics[n].errorCount
    /\ InProgress(n) = {} =>
         /\ metrics[n].status = "healthy" <=>
              (metrics[n].consecutiveFailures = 0 /\ hist.performed[n] >= 1)
         /\ metrics[n].status = "unhealthy" <=> metrics[n].consecutiveFailures >= 1

\* three rounds are over: the service failed, answered 2xx and failed again
C39_Witness ==
  /\ rounds = <<>>
  /\ hist.performed["frontend"] = 3
  /\ metrics["frontend"].status = "unhealthy"
  /\ metrics["frontend"].consecutiveFailures = 1
  /\ metrics["frontend"].errorCount = 2

\* ------------------------------------------------------------------ C40
\* the step renders the dashboard: from its timer, or at the end of the
\* immediate round of startMonitoring
Renders == hist'.renders = hist.renders + 1

\* metrics and alerts after the step are those of the store M
LeftBy(M) == metrics' = M.metrics /\ alerts' = M.alerts

\* C40: rendering the dashboard, with the average, 95th-percentile and
\* aggregate-health computations it calls, leaves every service's metrics,
\* the order of the rolling response-time buffer included, and the alert list
\* unchanged.
C40_RenderingChangesNothing ==
  [][Renders =>
       IF rounds' = rounds
       THEN metrics' = metrics /\ alerts' = alerts
       \* the render that follows the last check of the immediate round:
       \* metrics and alerts are what that check left
       ELSE \E r \in 1..Len(rounds), n \in ServiceNames(services) :
              \/ \E outcome \in FetchOutcomes, rt \in ResponseTimesOf(interval) :
                   /\ rounds[r].checks[n] = "fetch"
                   /\ LeftBy(AfterFetch(CurrentStore, ServiceNamed(services, n),
                                        outcome, rt, now))
              \/ \E ans \in ApiAnswers :
                   /\ rounds[r].checks[n] = "api"
                   /\ LeftBy(Finish(CheckApiHealth(CurrentStore, n, ans, now), n, now))]_vars

\* the dashboard was rendered at the start and once from its timer, and the
\* buffer holds its three samples in arrival order, which is not sorted order
C40_Witness ==
  /\ hist.renders = 2
  /\ rounds = <<>>
  /\ metrics["frontend"].responseTime = <<2500, 150, 2500>>
  /\ hist.roundsStarted = 3
====
